---- MODULE Spec2Model ----
(***************************************************************************)
(* Font resolution, metrics and shaping helpers of                         *)
(* scientific_inkscape/text/font_properties.py as a state machine.         *)
(*                                                                         *)
(* Python values are represented as follows.                               *)
(*   - an (ordered) dict, and an inkex Style, is a sequence of             *)
(*     <<key, value>> pairs with pairwise distinct keys, in insertion      *)
(*     order; tuple(d.items()) is that sequence itself;                    *)
(*   - a string that the code takes apart (a font-family value) is a       *)
(*     sequence of one-character strings; a string that is only compared   *)
(*     or looked up is a TLA+ string;                                      *)
(*   - a float is an IEEE 754 binary64 value [s, m, e], and the float     *)
(*     operations round to nearest, ties to even;                          *)
(*   - a Style object reference is [id, css]: id > 0 is the allocation     *)
(*     number of a cached object, id = 0 is None, id = -1 a fresh object   *)
(*     that no cache holds.                                                *)
(***************************************************************************)
EXTENDS Integers, Sequences, FiniteSets, TLC

VARIABLES
    truefonts,         \* FontConfig.truefonts:    style items -> Style object | None
    truefontsfc,       \* FontConfig.truefontsfc:  style items -> matched face
    truefontsft,       \* FontConfig.truefontsft:  style items -> metrics handle
    fontcharsets,      \* FontConfig.fontcharsets: css items   -> coverage set
    true_style_cache,  \* lru_cache of true_style: descriptor  -> Style object | None
    nobj,              \* number of Style objects the resolver has allocated and cached
    nopen,             \* number of FontTools_FontInstance objects built so far
    fcorder,           \* the matching service's preference order over installed faces
    last,              \* record of the most recent call and its outcome
    gtf_out,           \* history: style items -> outcomes of the get_true_font calls so far
    ts_out,            \* history: descriptor  -> outcomes of the true_style calls so far
    inst,              \* a FontTools_FontInstance: its font and the attributes set on it
    reads,             \* history: font table -> number of times it was read from the font
    pango,             \* a PangoRenderer: its layout, and the module's log counter
    arg,               \* input of the pure function applied
    ret                \* its output

resolverVars == <<truefonts, truefontsfc, truefontsft, fontcharsets,
                  true_style_cache, nobj, nopen, fcorder, last, gtf_out, ts_out>>
handleVars == <<inst, reads>>
vars == <<truefonts, truefontsfc, truefontsft, fontcharsets,
          true_style_cache, nobj, nopen, fcorder, last, gtf_out, ts_out, inst, reads,
          pango, arg, ret>>

\* the resolver as constructed, for the specifications of the pure functions
IdleResolver ==
    /\ truefonts = <<>>
    /\ truefontsfc = <<>>
    /\ truefontsft = <<>>
    /\ fontcharsets = <<>>
    /\ true_style_cache = <<>>
    /\ nobj = 0
    /\ nopen = 0
    /\ fcorder = <<>>
    /\ last = [op |-> "none"]
    /\ gtf_out = <<>>
    /\ ts_out = <<>>

\* no metrics handle in use
IdleHandle ==
    /\ inst = [font |-> "none"]
    /\ reads = <<>>

\* no renderer in use
IdleRenderer == pango = [made |-> FALSE]

-----------------------------------------------------------------------------
(* Python built-ins used by the code *)

\* d[k] = v on a dict held as a function
Upd(d, k, v) == [x \in (DOMAIN d) \cup {k} |-> IF x = k THEN v ELSE d[x]]

Abs(x) == IF x < 0 THEN -x ELSE x

Range(s) == {s[i] : i \in 1..Len(s)}

\* d.keys() of an ordered dict
Keys(d) == [i \in 1..Len(d) |-> d[i][1]]

HasKey(d, k) == \E i \in 1..Len(d) : d[i][1] = k

\* d[k]
Get(d, k) == d[CHOOSE i \in 1..Len(d) : d[i][1] = k][2]

\* d[k] = v : an existing key keeps its position, a new key is appended
Put(d, k, v) ==
    IF HasKey(d, k)
    THEN [i \in 1..Len(d) |-> IF d[i][1] = k THEN <<k, v>> ELSE d[i]]
    ELSE Append(d, <<k, v>>)

\* min(keys, key=lambda x: abs(x - q)) : the first element with the least key wins,
\* a later element replaces the running minimum only when strictly smaller
RECURSIVE pymin(_, _, _)
pymin(keys, q, best) ==
    IF keys = <<>> THEN best
    ELSE pymin(Tail(keys), q,
               IF Abs(Head(keys) - q) < Abs(best - q) THEN Head(keys) ELSE best)

\* the same fold with the tie going to the later element
RECURSIVE pymin_last(_, _, _)
pymin_last(keys, q, best) ==
    IF keys = <<>> THEN best
    ELSE pymin_last(Tail(keys), q,
               IF Abs(Head(keys) - q) <= Abs(best - q) THEN Head(keys) ELSE best)

nearest_val_lasttie(dictv, width_value) ==
    Get(dictv, pymin_last(Tail(Keys(dictv)), width_value, Head(Keys(dictv))))

nearest_val(dictv, width_value) ==
    Get(dictv, pymin(Tail(Keys(dictv)), width_value, Head(Keys(dictv))))

-----------------------------------------------------------------------------
(* Strings that the code takes apart: sequences of one-character strings *)

SQ == "'"
DQ == "\""
COMMA == ","

\* s.replace(ch, "")
replace(s, ch) == SelectSeq(s, LAMBDA c : c # ch)

RECURSIVE lstrip(_, _)
lstrip(s, ch) == IF s # <<>> /\ Head(s) = ch THEN lstrip(Tail(s), ch) ELSE s

RECURSIVE rstrip(_, _)
rstrip(s, ch) ==
    IF s # <<>> /\ s[Len(s)] = ch THEN rstrip(SubSeq(s, 1, Len(s) - 1), ch) ELSE s

\* s.strip(ch): every leading and every trailing ch is removed
strip(s, ch) == rstrip(lstrip(s, ch), ch)

\* s.split(sep): always at least one piece
RECURSIVE split(_, _)
split(s, sep) ==
    IF \A i \in 1..Len(s) : s[i] # sep THEN <<s>>
    ELSE LET i == CHOOSE i \in 1..Len(s) : s[i] = sep /\ \A j \in 1..(i - 1) : s[j] # sep
         IN  <<SubSeq(s, 1, i - 1)>> \o split(SubSeq(s, i + 1, Len(s)), sep)

\* sep.join(parts)
RECURSIVE join(_, _)
join(sep, parts) ==
    IF parts = <<>> THEN <<>>
    ELSE IF Len(parts) = 1 THEN parts[1]
    ELSE parts[1] \o <<sep>> \o join(sep, Tail(parts))

-----------------------------------------------------------------------------
(* FontAttributeLookups: the enumerated values of the matching service and   *)
(* the tables between them and the CSS vocabulary, in source order           *)

FC == [WEIGHT_THIN |-> 0, WEIGHT_EXTRALIGHT |-> 40, WEIGHT_LIGHT |-> 50,
       WEIGHT_SEMILIGHT |-> 55, WEIGHT_BOOK |-> 75, WEIGHT_NORMAL |-> 80,
       WEIGHT_MEDIUM |-> 100, WEIGHT_SEMIBOLD |-> 180, WEIGHT_BOLD |-> 200,
       WEIGHT_ULTRABOLD |-> 205, WEIGHT_HEAVY |-> 210, WEIGHT_ULTRABLACK |-> 215,
       SLANT_ROMAN |-> 0, SLANT_ITALIC |-> 100, SLANT_OBLIQUE |-> 110,
       WIDTH_ULTRACONDENSED |-> 50, WIDTH_EXTRACONDENSED |-> 63,
       WIDTH_CONDENSED |-> 75, WIDTH_SEMICONDENSED |-> 87, WIDTH_NORMAL |-> 100,
       WIDTH_SEMIEXPANDED |-> 113, WIDTH_EXPANDED |-> 125,
       WIDTH_EXTRAEXPANDED |-> 150, WIDTH_ULTRAEXPANDED |-> 200]

CSSWGT_to_FCWGT ==
    << <<"normal", FC.WEIGHT_NORMAL>>, <<"bold", FC.WEIGHT_BOLD>>,
       <<"100", FC.WEIGHT_THIN>>, <<"200", FC.WEIGHT_EXTRALIGHT>>,
       <<"300", FC.WEIGHT_LIGHT>>, <<"400", FC.WEIGHT_NORMAL>>,
       <<"500", FC.WEIGHT_MEDIUM>>, <<"600", FC.WEIGHT_SEMIBOLD>>,
       <<"700", FC.WEIGHT_BOLD>>, <<"800", FC.WEIGHT_ULTRABOLD>>,
       <<"900", FC.WEIGHT_HEAVY>> >>

CSSSTY_to_FCSLN ==
    << <<"normal", FC.SLANT_ROMAN>>, <<"italic", FC.SLANT_ITALIC>>,
       <<"oblique", FC.SLANT_OBLIQUE>> >>

CSSSTR_to_FCWDT ==
    << <<"ultra-condensed", FC.WIDTH_ULTRACONDENSED>>,
       <<"extra-condensed", FC.WIDTH_EXTRACONDENSED>>,
       <<"condensed", FC.WIDTH_CONDENSED>>,
       <<"semi-condensed", FC.WIDTH_SEMICONDENSED>>,
       <<"normal", FC.WIDTH_NORMAL>>,
       <<"semi-expanded", FC.WIDTH_SEMIEXPANDED>>,
       <<"expanded", FC.WIDTH_EXPANDED>>,
       <<"extra-expanded", FC.WIDTH_EXTRAEXPANDED>>,
       <<"ultra-expanded", FC.WIDTH_ULTRAEXPANDED>> >>

FCWGT_to_CSSWGT ==
    << <<FC.WEIGHT_THIN, "100">>, <<FC.WEIGHT_EXTRALIGHT, "200">>,
       <<FC.WEIGHT_LIGHT, "300">>, <<FC.WEIGHT_SEMILIGHT, "300">>,
       <<FC.WEIGHT_BOOK, "400">>, <<FC.WEIGHT_NORMAL, "400">>,
       <<FC.WEIGHT_MEDIUM, "500">>, <<FC.WEIGHT_SEMIBOLD, "600">>,
       <<FC.WEIGHT_BOLD, "700">>, <<FC.WEIGHT_ULTRABOLD, "800">>,
       <<FC.WEIGHT_HEAVY, "900">>, <<FC.WEIGHT_ULTRABLACK, "900">> >>

FCSLN_to_CSSSTY ==
    << <<FC.SLANT_ROMAN, "normal">>, <<FC.SLANT_ITALIC, "italic">>,
       <<FC.SLANT_OBLIQUE, "oblique">> >>

FCWDT_to_CSSSTR ==
    << <<FC.WIDTH_ULTRACONDENSED, "ultra-condensed">>,
       <<FC.WIDTH_EXTRACONDENSED, "extra-condensed">>,
       <<FC.WIDTH_CONDENSED, "condensed">>,
       <<FC.WIDTH_SEMICONDENSED, "semi-condensed">>,
       <<FC.WIDTH_NORMAL, "normal">>,
       <<FC.WIDTH_SEMIEXPANDED, "semi-expanded">>,
       <<FC.WIDTH_EXPANDED, "expanded">>,
       <<FC.WIDTH_EXTRAEXPANDED, "extra-expanded">>,
       <<FC.WIDTH_ULTRAEXPANDED, "ultra-expanded">> >>

\* table.get(sty.get(key), default) that ignores its default and answers the
\* first value of the table for a missing key
LookupOr_firstvalue(table, sty, key, default) ==
    IF HasKey(sty, key) /\ HasKey(table, Get(sty, key))
    THEN Get(table, Get(sty, key))
    ELSE table[1][2]

\* table.get(sty.get(key), default): the default when the style has no such key
\* or its value is no key of the table
LookupOr(table, sty, key, default) ==
    IF HasKey(sty, key) /\ HasKey(table, Get(sty, key))
    THEN Get(table, Get(sty, key))
    ELSE default

-----------------------------------------------------------------------------
(* A value read from a matched face: a scalar, or a tuple for a list- or    *)
(* range-valued property (isinstance(v, tuple))                              *)

Scalar(x) == [istuple |-> FALSE, v |-> x]
Tuple2(x, y) == [istuple |-> TRUE, v |-> x, w |-> y]

\* fc.Pattern.name_parse(re.escape(s)): the escaped name parsed back by the
\* matching service is the comma-separated list of family names of s
name_parse(s) == split(s, COMMA)

\* FontConfig.css_to_fc_pattern with the slant looked up under the weight key
css_to_fc_pattern_wrongkey(sty) ==
    [family |-> name_parse(replace(replace(Get(sty, "font-family"), SQ), DQ)),
     width  |-> LookupOr(CSSSTR_to_FCWDT, sty, "font-stretch", FC.WIDTH_NORMAL),
     weight |-> LookupOr(CSSWGT_to_FCWGT, sty, "font-weight", FC.WEIGHT_NORMAL),
     slant  |-> LookupOr(CSSSTY_to_FCSLN, sty, "font-weight", FC.SLANT_ROMAN)]

css_to_fc_pattern(sty) ==
    [family |-> name_parse(replace(replace(Get(sty, "font-family"), SQ), DQ)),
     width  |-> LookupOr(CSSSTR_to_FCWDT, sty, "font-stretch", FC.WIDTH_NORMAL),
     weight |-> LookupOr(CSSWGT_to_FCWGT, sty, "font-weight", FC.WEIGHT_NORMAL),
     slant  |-> LookupOr(CSSSTY_to_FCSLN, sty, "font-style", FC.SLANT_ROMAN)]

\* None, and a Style object
NoneObj == [id |-> 0, css |-> <<>>]
IsNone(o) == o.id = 0

\* FontConfig.fcfound_to_css: the css items of the Style it builds, or <<>> with
\* none = TRUE when a property is list-valued
fcfound_to_css(f) ==
    IF f.family.istuple \/ f.weight.istuple \/ f.slant.istuple \/ f.width.istuple
    THEN [none |-> TRUE, css |-> <<>>]
    ELSE [none |-> FALSE,
          css |-> << <<"font-family", <<SQ>> \o strip(f.family.v, SQ) \o <<SQ>> >>,
                     <<"font-weight", nearest_val(FCWGT_to_CSSWGT, f.weight.v)>>,
                     <<"font-style", Get(FCSLN_to_CSSSTY, f.slant.v)>>,
                     <<"font-stretch", nearest_val(FCWDT_to_CSSSTR, f.width.v)>> >>]

-----------------------------------------------------------------------------
(* Round trip css -> pattern -> css over the keys of the CSS tables *)

TableStyles ==
    {<< <<"font-family", <<SQ, "a", SQ>> >>, <<"font-weight", w>>,
        <<"font-style", s>>, <<"font-stretch", t>> >> :
        w \in Range(Keys(CSSWGT_to_FCWGT)),
        s \in Range(Keys(CSSSTY_to_FCSLN)),
        t \in Range(Keys(CSSSTR_to_FCWDT))}

\* a face that carries exactly the properties of the pattern
FaceOfPattern(pat) ==
    [file |-> "echo", family |-> Scalar(pat.family[1]), weight |-> Scalar(pat.weight),
     slant |-> Scalar(pat.slant), width |-> Scalar(pat.width), charset |-> {}]

InitRT ==
    /\ IdleResolver
    /\ IdleHandle
    /\ IdleRenderer
    /\ arg \in {[fn |-> "roundtrip", sty |-> s] : s \in TableStyles}
    /\ ret = [done |-> FALSE]

CallRoundTrip ==
    /\ arg.fn = "roundtrip"
    /\ ~ret.done
    /\ ret' = [done |-> TRUE,
               css |-> fcfound_to_css(FaceOfPattern(css_to_fc_pattern(arg.sty))).css]
    /\ UNCHANGED <<arg, resolverVars, handleVars, pango>>

NextRT == CallRoundTrip

SpecRT == InitRT /\ [][NextRT]_vars

NumericWeights == {"100", "200", "300", "400", "500", "600", "700", "800", "900"}

\* the weight string the round trip yields: the keyword weights come back numeric
CanonWeight(w) == IF w = "normal" THEN "400" ELSE IF w = "bold" THEN "700" ELSE w

\* C6 as stated: for every style over the table keys the round trip reproduces
\* font-weight, font-style and font-stretch.
C6_RoundTripAll ==
    ret.done =>
        /\ Get(ret.css, "font-weight") = Get(arg.sty, "font-weight")
        /\ Get(ret.css, "font-style") = Get(arg.sty, "font-style")
        /\ Get(ret.css, "font-stretch") = Get(arg.sty, "font-stretch")

\* C6 amended: font-style and font-stretch are reproduced for every table key,
\* font-weight is reproduced for the numeric keys 100..900, and the keywords
\* normal and bold come back as 400 and 700.
C6_RoundTripNumeric ==
    ret.done =>
        /\ Get(ret.css, "font-weight") = CanonWeight(Get(arg.sty, "font-weight"))
        /\ Get(arg.sty, "font-weight") \in NumericWeights
               => Get(ret.css, "font-weight") = Get(arg.sty, "font-weight")
        /\ Get(ret.css, "font-style") = Get(arg.sty, "font-style")
        /\ Get(ret.css, "font-stretch") = Get(arg.sty, "font-stretch")

\* a non-default numeric weight, slant and stretch made the round trip
C6_Witness ==
    /\ ret.done
    /\ Get(arg.sty, "font-weight") = "300"
    /\ Get(arg.sty, "font-style") = "oblique"
    /\ Get(arg.sty, "font-stretch") = "semi-expanded"
    /\ Get(ret.css, "font-weight") = "300"
    /\ Get(ret.css, "font-style") = "oblique"

-----------------------------------------------------------------------------
(* css_to_fc_pattern over styles whose attributes are absent, keys of the     *)
(* CSS tables, or values the tables do not have                               *)

ABSENT == "<absent>"

\* the items of a style that has key k with value v, or lacks key k
Opt(k, v) == IF v = ABSENT THEN <<>> ELSE << <<k, v>> >>

\* with and without a font-family
PatFamilies == { <<>>, << <<"font-family", <<SQ, "a", SQ>> >> >> }
PatWeights == Range(Keys(CSSWGT_to_FCWGT)) \cup {ABSENT, "bolder", "550", "Bold", ""}
PatSlants == Range(Keys(CSSSTY_to_FCSLN)) \cup {ABSENT, "Italic", "slanted"}
PatWidths == Range(Keys(CSSSTR_to_FCWDT)) \cup {ABSENT, "wide", "75%"}

PatStyles ==
    {f \o Opt("font-weight", w) \o Opt("font-style", s)
        \o Opt("font-stretch", t) :
        f \in PatFamilies, w \in PatWeights, s \in PatSlants, t \in PatWidths}

InitPat ==
    /\ IdleResolver
    /\ IdleHandle
    /\ IdleRenderer
    /\ arg \in {[fn |-> "css_to_fc_pattern", sty |-> s] : s \in PatStyles}
    /\ ret = [done |-> FALSE]

\* sty["font-family"] raises KeyError for a style without that key (line 187)
CallCssToFcPattern ==
    /\ arg.fn = "css_to_fc_pattern"
    /\ ~ret.done
    /\ ret' = IF HasKey(arg.sty, "font-family")
              THEN [done |-> TRUE, raised |-> FALSE, pat |-> css_to_fc_pattern(arg.sty)]
              ELSE [done |-> TRUE, raised |-> TRUE]
    /\ UNCHANGED <<arg, resolverVars, handleVars, pango>>

NextPat == CallCssToFcPattern

SpecPat == InitPat /\ [][NextPat]_vars

\* the attribute is absent from the style or its value is no key of the table
Unknown(table, sty, key) ==
    ~HasKey(sty, key) \/ Get(sty, key) \notin Range(Keys(table))

\* C12: for a style that has a font-family, css_to_fc_pattern returns a pattern
\* (it does not raise) whose weight is the normal weight when font-weight is
\* absent or no key of the weight table, whose slant is roman when font-style is
\* absent or no key of the style table, and whose width is the normal width when
\* font-stretch is absent or no key of the stretch table.
C12_UnknownToDefault ==
    (ret.done /\ arg.fn = "css_to_fc_pattern" /\ HasKey(arg.sty, "font-family")) =>
        /\ ~ret.raised
        /\ Unknown(CSSWGT_to_FCWGT, arg.sty, "font-weight")
               => ret.pat.weight = FC.WEIGHT_NORMAL
        /\ Unknown(CSSSTY_to_FCSLN, arg.sty, "font-style")
               => ret.pat.slant = FC.SLANT_ROMAN
        /\ Unknown(CSSSTR_to_FCWDT, arg.sty, "font-stretch")
               => ret.pat.width = FC.WIDTH_NORMAL

\* an unknown weight, an absent style and an unknown stretch gave the defaults
C12_Witness ==
    /\ ret.done
    /\ arg.sty = << <<"font-family", <<SQ, "a", SQ>> >>, <<"font-weight", "bolder">>,
                    <<"font-stretch", "wide">> >>
    /\ ~ret.raised
    /\ ret.pat.weight = FC.WEIGHT_NORMAL
    /\ ret.pat.slant = FC.SLANT_ROMAN
    /\ ret.pat.width = FC.WIDTH_NORMAL

-----------------------------------------------------------------------------
(* Style Normalizer *)

fontatt == <<"font-family", "font-weight", "font-style", "font-stretch">>

\* inkex.text.utils.default_style_atts restricted to the font attributes
default_style_atts(k) ==
    IF k = "font-family" THEN <<"s", "a", "n", "s", "-", "s", "e", "r", "i", "f">>
    ELSE "normal"

dfltatt == [i \in 1..Len(fontatt) |-> <<fontatt[i], default_style_atts(fontatt[i])>>]

\* sty2.update(sty): the update without the "if k in fontatt" filter
RECURSIVE update_nofilter(_, _)
update_nofilter(sty2, items) ==
    IF items = <<>> THEN sty2
    ELSE update_nofilter(Put(sty2, Head(items)[1], Head(items)[2]), Tail(items))

\* sty2.update({k: v for k, v in sty.items() if k in fontatt})
RECURSIVE update_fontatt(_, _)
update_fontatt(sty2, items) ==
    IF items = <<>> THEN sty2
    ELSE update_fontatt(
             IF Head(items)[1] \in Range(fontatt)
             THEN Put(sty2, Head(items)[1], Head(items)[2])
             ELSE sty2,
             Tail(items))

\* font_style that strips only single quotes from a family token
font_style_nodq(sty) ==
    LET sty2 == update_fontatt(dfltatt, sty)
        toks == split(Get(sty2, "font-family"), COMMA)
    IN  Put(sty2, "font-family",
            join(COMMA, [i \in 1..Len(toks) |-> <<SQ>> \o strip(toks[i], SQ) \o <<SQ>>]))

\* font_style: the value its lru_cache holds for sty is the value computed here
font_style(sty) ==
    LET sty2 == update_fontatt(dfltatt, sty)
        toks == split(Get(sty2, "font-family"), COMMA)
    IN  Put(sty2, "font-family",
            join(COMMA, [i \in 1..Len(toks) |->
                            <<SQ>> \o strip(strip(toks[i], DQ), SQ) \o <<SQ>>]))

-----------------------------------------------------------------------------
(* Inputs of font_style *)

MaxTokens == 2     \* family names of a font-family list

\* family names: no quote character at either end, quote characters inside allowed
Tokens == { <<>>, <<"a">>, <<"a", SQ, "a">>, <<"b", DQ, "a">> }

Wraps == {"none", "single", "double"}

wrap(t, w) ==
    IF w = "single" THEN <<SQ>> \o t \o <<SQ>>
    ELSE IF w = "double" THEN <<DQ>> \o t \o <<DQ>>
    ELSE t

\* the font-family value listing the names toks, the i-th quoted as ws[i]
FamilyList(toks, ws) == join(COMMA, [i \in 1..Len(toks) |-> wrap(toks[i], ws[i])])

\* attributes a style may carry besides the family
OtherAtts ==
    { <<>>,
      << <<"fill", "red">>, <<"font-weight", "bold">> >>,
      << <<"font-style", "italic">>, <<"font-size", "10px">>,
         <<"font-stretch", "condensed">> >> }

StyleOf(toks, ws, other) == other \o << <<"font-family", FamilyList(toks, ws)>> >>

\* a style with no font-family key: the family names that font_style sees are
\* those of the default family
NoFamilyArgs ==
    {[fn |-> "font_style", toks |-> <<default_style_atts("font-family")>>,
      ws |-> <<"none">>, other |-> o, sty |-> o] : o \in OtherAtts}

InitFS ==
    /\ IdleResolver
    /\ IdleHandle
    /\ IdleRenderer
    /\ \/ \E n \in 1..MaxTokens :
              arg \in {[fn |-> "font_style", toks |-> t, ws |-> w, other |-> o,
                        sty |-> StyleOf(t, w, o)] :
                           t \in [1..n -> Tokens], w \in [1..n -> Wraps], o \in OtherAtts}
       \/ arg \in NoFamilyArgs
    /\ ret = [done |-> FALSE]

CallFontStyle ==
    /\ arg.fn = "font_style"
    /\ ~ret.done
    /\ ret' = [done |-> TRUE, sty |-> font_style(arg.sty)]
    /\ UNCHANGED <<arg, resolverVars, handleVars, pango>>

NextFS == CallFontStyle

SpecFS == InitFS /\ [][NextFS]_vars

\* C10: the font-family of the result is every family name in one pair of single
\* quotes, joined by commas, and any other quoting of the same names (none, single
\* or double quotes per name) gives the same font-family.
C10_QuotingCanonical ==
    ret.done =>
        /\ Get(ret.sty, "font-family")
             = join(COMMA, [i \in 1..Len(arg.toks) |-> <<SQ>> \o arg.toks[i] \o <<SQ>>])
        /\ \A w2 \in [1..Len(arg.toks) -> Wraps] :
               Get(font_style(StyleOf(arg.toks, w2, arg.other)), "font-family")
                 = Get(ret.sty, "font-family")

\* two names, the first double-quoted with a quote character inside, the second bare
C10_Witness ==
    /\ ret.done
    /\ arg.toks = << <<"a", SQ, "a">>, <<"a">> >>
    /\ arg.ws = <<"double", "none">>
    /\ Get(ret.sty, "font-family") = <<SQ, "a", SQ, "a", SQ, COMMA, SQ, "a", SQ>>

\* C11 as stated: the result has exactly the four keys font-family, font-weight,
\* font-style and font-stretch, each with the input's value when the input has
\* the key and the default otherwise; no other input attribute is kept.
C11_FourKeysInputValues ==
    ret.done =>
        /\ Len(ret.sty) = 4
        /\ Range(Keys(ret.sty)) = Range(fontatt)
        /\ \A k \in Range(fontatt) :
               Get(ret.sty, k) = IF HasKey(arg.sty, k) THEN Get(arg.sty, k)
                                 ELSE default_style_atts(k)

\* C11: the result has exactly the four keys; font-weight, font-style and
\* font-stretch have the input's value when the input has the key and the default
\* otherwise; font-family is the single-quoted list of the family names of the
\* input's value, or of the default family when the input has no font-family.
C11_FourKeysFamilyRequoted ==
    ret.done =>
        /\ Len(ret.sty) = 4
        /\ Range(Keys(ret.sty)) = Range(fontatt)
        /\ \A k \in Range(fontatt) \ {"font-family"} :
               Get(ret.sty, k) = IF HasKey(arg.sty, k) THEN Get(arg.sty, k)
                                 ELSE default_style_atts(k)
        /\ Get(ret.sty, "font-family")
             = join(COMMA, [i \in 1..Len(arg.toks) |-> <<SQ>> \o arg.toks[i] \o <<SQ>>])
        /\ HasKey(arg.sty, "font-family")
             => Get(arg.sty, "font-family") = FamilyList(arg.toks, arg.ws)

\* a style with fill and font-weight and no font-family: the weight is kept, the
\* fill dropped, the other three attributes filled in
C11_Witness ==
    /\ ret.done
    /\ arg.sty = << <<"fill", "red">>, <<"font-weight", "bold">> >>
    /\ ret.sty = << <<"font-family", <<SQ>> \o default_style_atts("font-family") \o <<SQ>>>>,
                    <<"font-weight", "bold">>,
                    <<"font-style", "normal">>,
                    <<"font-stretch", "normal">> >>

-----------------------------------------------------------------------------
(* Python floats: IEEE 754 binary64 with round to nearest, ties to even.   *)
(* A float is [s, m, e] of value (-1)^s * m * 2^e with 2^52 <= m < 2^53, or *)
(* m = 0 for zero. The quantities of the program are quotients of font     *)
(* table integers, far from the overflow and subnormal ranges.             *)
(* A mantissa is a natural number <<hi, lo>> = hi * 2^27 + lo, lo < 2^27.   *)

LIMB == 2^27

NZero == <<0, 0>>
NOne == <<0, 1>>
TWO52 == <<2^25, 0>>
TWO53 == <<2^26, 0>>
TWO56 == <<2^29, 0>>

NLt(a, b) == a[1] < b[1] \/ (a[1] = b[1] /\ a[2] < b[2])
NLe(a, b) == ~NLt(b, a)
NAdd(a, b) == LET lo == a[2] + b[2] IN <<a[1] + b[1] + (lo \div LIMB), lo % LIMB>>
\* a - b for a >= b
NSub(a, b) ==
    LET lo == a[2] - b[2]
    IN  IF lo < 0 THEN <<a[1] - b[1] - 1, lo + LIMB>> ELSE <<a[1] - b[1], lo>>
NDbl(a) == NAdd(a, a)
NHalf(a) == <<a[1] \div 2, (a[2] + (a[1] % 2) * LIMB) \div 2>>
NOdd(a) == a[2] % 2 = 1
NBit(a) == IF NOdd(a) THEN 1 ELSE 0
N8(m) == NDbl(NDbl(NDbl(m)))

\* the number of bits of n, 0 < n < 2^30
BitLen(n) == CHOOSE k \in 1..30 : n < 2^k /\ 2 * n >= 2^k
NBitLen(m) == IF m[1] > 0 THEN 27 + BitLen(m[1]) ELSE IF m[2] > 0 THEN BitLen(m[2]) ELSE 0

\* m * 2^k for k < 27
NShlLow(m, k) ==
    <<m[1] * 2^k + (m[2] \div 2^(27 - k)), (m[2] % 2^(27 - k)) * 2^k>>
\* m * 2^k, a number below 2^58
NShl(m, k) ==
    IF k < 27 THEN NShlLow(m, k)
    ELSE IF m[1] = 0 THEN <<m[2] * 2^(k - 27), 0>>
    ELSE NShlLow(NShlLow(m, 26), k - 26)

\* m / 2^k, with a 1 kept in the lowest bit when a set bit is shifted out
RECURSIVE ShiftJam(_, _)
ShiftJam(m, k) ==
    IF m = NZero \/ k = 0 THEN m
    ELSE IF k >= 27
         THEN LET h == ShiftJam(<<0, m[1]>>, k - 27)
              IN  IF m[2] # 0 /\ ~NOdd(h) THEN NAdd(h, NOne) ELSE h
         ELSE LET h == <<m[1] \div 2^k, (m[2] \div 2^k) + (m[1] % 2^k) * 2^(27 - k)>>
              IN  IF m[2] % 2^k # 0 /\ ~NOdd(h) THEN NAdd(h, NOne) ELSE h

\* m * 2^k with 2^(n-1) <= m * 2^k < 2^n, and the exponent lowered by k
NormUp(m, e, n) == LET k == n - NBitLen(m) IN <<NShl(m, k), e - k>>

FZero == [s |-> 0, m |-> NZero, e |-> 0]
FIsZero(x) == x.m = NZero

\* rounding: mantissa m, the bit g below it, and st, whether a set bit lies
\* below g
FRound(s, m, e, g, st) ==
    IF g = 1 /\ (st \/ NOdd(m))
    THEN LET m1 == NAdd(m, NOne)
         IN  IF m1 = TWO53 THEN [s |-> s, m |-> TWO52, e |-> e + 1]
             ELSE [s |-> s, m |-> m1, e |-> e]
    ELSE [s |-> s, m |-> m, e |-> e]

\* float(n) of an int n, exact for |n| < 2^31
FromInt(n) ==
    IF n = 0 THEN FZero
    ELSE LET r == NormUp(<<Abs(n) \div LIMB, Abs(n) % LIMB>>, 0, 53)
         IN  [s |-> IF n < 0 THEN 1 ELSE 0, m |-> r[1], e |-> r[2]]

FNeg(x) == [s |-> 1 - x.s, m |-> x.m, e |-> x.e]
FAbs(x) == [s |-> 0, m |-> x.m, e |-> x.e]
\* x == y, where -0.0 == 0.0
FEq(x, y) == (FIsZero(x) /\ FIsZero(y)) \/ x = y
\* x > 0.0
FPos(x) == ~FIsZero(x) /\ x.s = 0
\* |x| < |y|
FMagLt(x, y) ==
    IF FIsZero(y) THEN FALSE
    ELSE IF FIsZero(x) THEN TRUE
    ELSE x.e < y.e \/ (x.e = y.e /\ NLt(x.m, y.m))

\* m * j for a digit j < 8
NTimes(m, j) == <<m[1] * j + ((m[2] * j) \div LIMB), (m[2] * j) % LIMB>>

\* n more octal digits of a quotient by d: rq holds the remainder, below d,
\* and the quotient digits so far
RECURSIVE DivDigits(_, _, _)
DivDigits(rq, d, n) ==
    IF n = 0 THEN rq
    ELSE IF rq[1] = NZero THEN DivDigits(<<NZero, N8(rq[2])>>, d, n - 1)
    ELSE LET r8 == N8(rq[1])
             j == CHOOSE i \in 0..7 : NLe(NTimes(d, i), r8) /\ NLt(r8, NTimes(d, i + 1))
         IN  DivDigits(<<NSub(r8, NTimes(d, j)), NAdd(N8(rq[2]), <<0, j>>)>>, d, n - 1)

\* x / y for y # 0: the leading quotient bit and 54 more, the last two of them
\* and the remainder deciding the rounding
FDiv(x, y) ==
    LET s == (x.s + y.s) % 2
    IN  IF FIsZero(x) THEN [s |-> s, m |-> NZero, e |-> 0]
        ELSE LET big == NLe(y.m, x.m)
                 r0 == IF big THEN x.m ELSE NDbl(x.m)
                 rq == DivDigits(<<NSub(r0, y.m), NOne>>, y.m, 18)
             IN  FRound(s, NHalf(NHalf(rq[2])), x.e - y.e - (IF big THEN 52 ELSE 53),
                        (rq[2][2] % 4) \div 2, NOdd(rq[2]) \/ rq[1] # NZero)

\* the float of sign s nearest to S * 2^e, for 2^55 <= S < 2^56: the lowest
\* three bits of S lie below the mantissa
FPack(s, S, e) ==
    FRound(s, NHalf(NHalf(NHalf(S))), e + 3, (S[2] % 8) \div 4, S[2] % 4 # 0)

\* |x| + |y| with sign s, for non-zero x, y with x.e >= y.e
FAddMag(s, x, y) ==
    LET S == NAdd(N8(x.m), ShiftJam(N8(y.m), x.e - y.e))
    IN  IF NLe(TWO56, S) THEN FPack(s, ShiftJam(S, 1), x.e - 2)
        ELSE FPack(s, S, x.e - 3)

\* |x| - |y| with sign s, for non-zero x, y with |x| > |y|
FSubMag(s, x, y) ==
    LET D == NSub(N8(x.m), ShiftJam(N8(y.m), x.e - y.e))
        r == NormUp(D, x.e - 3, 56)
    IN  FPack(s, r[1], r[2])

\* x + y
FAdd(x, y) ==
    IF FIsZero(x) /\ FIsZero(y) THEN [s |-> x.s * y.s, m |-> NZero, e |-> 0]
    ELSE IF FIsZero(x) THEN y
    ELSE IF FIsZero(y) THEN x
    ELSE IF x.s = y.s
         THEN IF x.e >= y.e THEN FAddMag(x.s, x, y) ELSE FAddMag(x.s, y, x)
         ELSE IF FMagLt(y, x) THEN FSubMag(x.s, x, y)
              ELSE IF FMagLt(x, y) THEN FSubMag(y.s, y, x)
              ELSE FZero

\* x - y
FSub(x, y) == FAdd(x, FNeg(y))

\* the product of mantissa a and the multiplier p.b, n octal digits to go:
\* p.acc is the part above the bits shifted out, p.out the last three bits
\* shifted out, p.st whether an earlier one is set
RECURSIVE MulDigits(_, _, _)
MulDigits(a, p, n) ==
    IF n = 0 THEN p
    ELSE IF p.b[2] % 8 = 0
    THEN MulDigits(a, [b |-> NHalf(NHalf(NHalf(p.b))), acc |-> NHalf(NHalf(NHalf(p.acc))),
                       out |-> p.acc[2] % 8, st |-> p.st \/ p.out # 0], n - 1)
    ELSE LET t == NAdd(p.acc, NTimes(a, p.b[2] % 8))
         IN  MulDigits(a, [b |-> NHalf(NHalf(NHalf(p.b))), acc |-> NHalf(NHalf(NHalf(t))),
                           out |-> t[2] % 8, st |-> p.st \/ p.out # 0], n - 1)

\* x * y: acc is the product of the mantissas over 2^54, in [2^50, 2^52)
FMul(x, y) ==
    LET s == (x.s + y.s) % 2
    IN  IF FIsZero(x) \/ FIsZero(y) THEN [s |-> s, m |-> NZero, e |-> 0]
        ELSE LET p == MulDigits(x.m, [b |-> y.m, acc |-> NZero, out |-> 0, st |-> FALSE], 18)
             IN  IF NLe(NHalf(TWO52), p.acc)
                 THEN FRound(s, NAdd(NDbl(p.acc), <<0, p.out \div 4>>), x.e + y.e + 53,
                             (p.out % 4) \div 2, p.st \/ p.out % 2 = 1)
                 ELSE FRound(s, NAdd(NDbl(NDbl(p.acc)), <<0, p.out \div 2>>),
                             x.e + y.e + 52, p.out % 2, p.st)

\* other values in the place of the literals 0.8 and 0.5
F08_half == FDiv(FromInt(1), FromInt(2))
F05_one == FromInt(1)

\* the literals 0.8, 0.5 and 1.0
F08 == FDiv(FromInt(4), FromInt(5))
F05 == FDiv(FromInt(1), FromInt(2))
F1 == FromInt(1)


-----------------------------------------------------------------------------
(* FontTools_FontInstance.find_font_metrics *)

\* em = ascent + descent; if em > 0.0: ascent /= em, with descent left as it was
normalize_ascent_only(ascent, descent) ==
    LET em == FAdd(ascent, descent)
    IN  IF FPos(em) THEN <<FDiv(ascent, em), descent>> ELSE <<ascent, descent>>

\* em = ascent + descent; if em > 0.0: ascent /= em; descent /= em
normalize_em(ascent, descent) ==
    LET em == FAdd(ascent, descent)
    IN  IF FPos(em) THEN <<FDiv(ascent, em), FDiv(descent, em)>> ELSE <<ascent, descent>>

\* the os2.version test of the x-height
OS2_VERSION_MIN == 2
OS2_VERSION_NONE == 65535

\* font: [unitsPerEm, os2 (has, sTypoAscender, sTypoDescender, version, sxHeight,
\* capattr, sCapHeight), hhea (ascent, descent), xglyph (present, hasheight, height),
\* glyf, iglyph (present, yMax, yMin)]; the result holds the attributes the method sets
\* n / d of two ints, d # 0: the float nearest to the quotient
FQuot(n, d) == FDiv(FromInt(n), FromInt(d))

find_font_metrics(font) ==
    LET unitsPerEm == font.unitsPerEm
        os2 == font.os2
        a0 == IF os2.has THEN FAbs(FQuot(os2.sTypoAscender, unitsPerEm))
                         ELSE FAbs(FQuot(font.hhea.ascent, unitsPerEm))
        d0 == IF os2.has THEN FAbs(FQuot(os2.sTypoDescender, unitsPerEm))
                         ELSE FAbs(FQuot(font.hhea.descent, unitsPerEm))
        nrm == normalize_em(a0, d0)
        ascent == nrm[1]
        descent == nrm[2]
        xheight ==
            IF os2.has /\ os2.version >= OS2_VERSION_MIN /\ os2.version # OS2_VERSION_NONE
            THEN FAbs(FQuot(os2.sxHeight, unitsPerEm))
            ELSE IF font.xglyph.present /\ font.xglyph.hasheight
                 THEN FAbs(FQuot(font.xglyph.height, unitsPerEm))
                 ELSE F05
    IN  [_ascent |-> ascent,
         _descent |-> descent,
         _ascent_max |-> FAbs(FQuot(font.hhea.ascent, unitsPerEm)),
         _descent_max |-> FAbs(FQuot(font.hhea.descent, unitsPerEm)),
         _design_units |-> unitsPerEm,
         _xheight |-> xheight,
         _baselines |-> << FNeg(descent),              \* IDEOGRAPHIC
                           FMul(F08, ascent),          \* HANGING
                           FMul(F08, xheight),         \* MATHEMATICAL
                           FSub(F05, descent),         \* CENTRAL
                           FMul(F05, xheight),         \* MIDDLE
                           ascent,                     \* TEXT_BEFORE_EDGE
                           FNeg(descent),              \* TEXT_AFTER_EDGE
                           FromInt(0) >>,                 \* ALPHABETIC
         cap_height |->
            IF os2.has /\ os2.capattr /\ os2.capnotnone /\ os2.sCapHeight # 0
            THEN FQuot(os2.sCapHeight, unitsPerEm)
            ELSE IF font.glyf /\ font.iglyph.present
                 THEN FQuot(font.iglyph.yMax - 0 * font.iglyph.yMin, unitsPerEm)
                 ELSE FromInt(1),
         pre_ascent |-> a0,       \* the values before the division by em
         pre_descent |-> d0]

MaxMetric == 5     \* sTypoAscender, -sTypoDescender <= MaxMetric design units

EmSizes == {1000, 2048}

OS2Tables ==
    {[has |-> TRUE, sTypoAscender |-> a, sTypoDescender |-> d, version |-> v,
      sxHeight |-> 1, capattr |-> c[1], capnotnone |-> c[2], sCapHeight |-> c[3]] :
        a \in 0..MaxMetric, d \in -MaxMetric..0,
        v \in {1, 2, OS2_VERSION_NONE},
        c \in {<<FALSE, FALSE, 0>>, <<TRUE, FALSE, 0>>, <<TRUE, TRUE, 0>>, <<TRUE, TRUE, 3>>}}
    \cup {[has |-> FALSE]}

XGlyphs == {[present |-> FALSE], [present |-> TRUE, hasheight |-> FALSE],
            [present |-> TRUE, hasheight |-> TRUE, height |-> 2]}

Fonts ==
    {[unitsPerEm |-> u, os2 |-> o, hhea |-> [ascent |-> h, descent |-> -h],
      xglyph |-> x, glyf |-> g, iglyph |-> [present |-> g, yMax |-> 3, yMin |-> -1]] :
        u \in EmSizes, o \in OS2Tables, h \in {0, 1}, x \in XGlyphs, g \in BOOLEAN}

InitFM ==
    /\ IdleResolver
    /\ IdleHandle
    /\ IdleRenderer
    /\ arg \in {[fn |-> "find_font_metrics", font |-> f] : f \in Fonts}
    /\ ret = [done |-> FALSE]

CallFindFontMetrics ==
    /\ arg.fn = "find_font_metrics"
    /\ ~ret.done
    /\ ret' = [done |-> TRUE, m |-> find_font_metrics(arg.font)]
    /\ UNCHANGED <<arg, resolverVars, handleVars, pango>>

NextFM == CallFindFontMetrics

SpecFM == InitFM /\ [][NextFM]_vars

\* 2^-52, the distance from 1.0 to the next float above it
F_EPSILON == [s |-> 0, m |-> TWO52, e |-> -104]

\* the sum, as the floats add, of the ascent and descent read from the tables
PreSum == FAdd(ret.m.pre_ascent, ret.m.pre_descent)

\* C8, as stated: after find_font_metrics, when the ascent and descent read from
\* the tables have a positive sum the stored ascent plus the stored descent
\* equals 1, and when that sum is zero both are stored as read.
C8_AscentDescentSumOne ==
    ret.done =>
        /\ FPos(PreSum) => FEq(FAdd(ret.m._ascent, ret.m._descent), F1)
        /\ FIsZero(PreSum) => /\ ret.m._ascent = ret.m.pre_ascent
                              /\ ret.m._descent = ret.m.pre_descent

\* C8, amended: after find_font_metrics, when the ascent and descent read from
\* the tables have a positive sum the stored ascent plus the stored descent is
\* within 2^-52 of 1, and when that sum is zero both are stored as read.
C8_AscentDescentSumNearOne ==
    ret.done =>
        /\ FPos(PreSum) =>
               ~FMagLt(F_EPSILON, FSub(FAdd(ret.m._ascent, ret.m._descent), F1))
        /\ FIsZero(PreSum) => /\ ret.m._ascent = ret.m.pre_ascent
                              /\ ret.m._descent = ret.m.pre_descent

\* a face with sTypoAscender 4 and sTypoDescender -5 in 1000 units per em: both
\* were divided by their sum, and the stored values add up to 1 - 2^-53
C8_Witness ==
    /\ ret.done
    /\ arg.font.os2.has
    /\ arg.font.os2.sTypoAscender = 4
    /\ arg.font.os2.sTypoDescender = -5
    /\ arg.font.unitsPerEm = 1000
    /\ ret.m._ascent # ret.m.pre_ascent
    /\ ret.m._descent # ret.m.pre_descent
    /\ FAdd(ret.m._ascent, ret.m._descent) = [s |-> 0, m |-> <<2^26 - 1, LIMB - 1>>, e |-> -53]

\* the floats nearest to 8/10 and 1/2
EightTenths == FDiv(FromInt(8), FromInt(10))
OneHalf == FDiv(FromInt(2), FromInt(4))

\* C23: after find_font_metrics the baseline table is, in the order ideographic,
\* hanging, mathematical, central, middle, text-before-edge, text-after-edge,
\* alphabetic: -descent, 0.8 * ascent, 0.8 * xheight, 0.5 - descent,
\* 0.5 * xheight, ascent, -descent, 0, for the stored (normalized) ascent and
\* descent and the stored xheight.
C23_BaselineTable ==
    ret.done =>
        LET m == ret.m
            b == m._baselines
        IN  /\ Len(b) = 8
            /\ FEq(b[1], FNeg(m._descent))
            /\ FEq(b[2], FMul(EightTenths, m._ascent))
            /\ FEq(b[3], FMul(EightTenths, m._xheight))
            /\ FEq(b[4], FSub(OneHalf, m._descent))
            /\ FEq(b[5], FMul(OneHalf, m._xheight))
            /\ FEq(b[6], m._ascent)
            /\ FEq(b[7], FNeg(m._descent))
            /\ FIsZero(b[8])

\* a face whose ascent and descent were normalized to non-zero values that differ
\* from the values read: every entry but the last is non-zero, the central
\* baseline lies above zero and the ideographic one below
C23_Witness ==
    /\ ret.done
    /\ ret.m._ascent # ret.m.pre_ascent
    /\ ~FIsZero(ret.m._ascent)
    /\ ~FIsZero(ret.m._descent)
    /\ \A i \in 1..7 : ~FIsZero(ret.m._baselines[i])
    /\ ret.m._baselines[1].s = 1
    /\ ret.m._baselines[4].s = 0
    /\ ret.m._baselines[2] # ret.m._baselines[6]

\* C24: the stored xheight is |sxHeight / unitsPerEm| when the face has an OS/2
\* table of version >= 2 other than 0xFFFF; otherwise |height / unitsPerEm| of
\* the glyph named x when the glyph set has it and its height is not None;
\* otherwise 0.5.
C24_XHeightSource ==
    ret.done =>
        LET font == arg.font
            fromos2 == /\ font.os2.has
                       /\ font.os2.version >= 2
                       /\ font.os2.version # 65535
            fromglyph == font.xglyph.present /\ font.xglyph.hasheight
        IN  /\ fromos2 => ret.m._xheight = FAbs(FQuot(font.os2.sxHeight, font.unitsPerEm))
            /\ (~fromos2 /\ fromglyph)
                   => ret.m._xheight = FAbs(FQuot(font.xglyph.height, font.unitsPerEm))
            /\ (~fromos2 /\ ~fromglyph) => ret.m._xheight = OneHalf

\* a face with an OS/2 table of version 0xFFFF and a glyph x with a height: the
\* xheight is that of the glyph, which differs from the sxHeight of the table
C24_Witness ==
    /\ ret.done
    /\ arg.font.os2.has
    /\ arg.font.os2.version = 65535
    /\ arg.font.xglyph.present /\ arg.font.xglyph.hasheight
    /\ ret.m._xheight = FAbs(FQuot(arg.font.xglyph.height, arg.font.unitsPerEm))
    /\ ret.m._xheight # FAbs(FQuot(arg.font.os2.sxHeight, arg.font.unitsPerEm))

-----------------------------------------------------------------------------
(* FontTools_FontInstance.get_char_advances                                 *)
(* A font is [unitsPerEm, cmap, hmtx, kern, GSUB, glyf, GlyphNames]; a      *)
(* table the font lacks, and a missing character map, is [has |-> FALSE].  *)
(* The metrics handle is [font, vals]: vals maps the names of the          *)
(* attributes set on it to their values.                                    *)

NoneVal == [none |-> TRUE]
NoTable == [has |-> FALSE]
\* dict.get(key) that found nothing, where the values are glyph names
NoGlyph == ""

\* hasattr(self, name)
hasattr(self, name) == name \in DOMAIN self.vals

\* self.name = value
setattr(self, name, value) == [font |-> self.font, vals |-> Upd(self.vals, name, value)]

\* the tables read on demand: the font table, the attribute name that hasattr
\* tests, and the attribute that is assigned
LazyTables ==
    << [table |-> "cmap", tested |-> "cmap", assigned |-> "cmap"],
       [table |-> "hmtx", tested |-> "htmx", assigned |-> "hmtx"],
       [table |-> "kern", tested |-> "kern", assigned |-> "kern"],
       [table |-> "GSUB", tested |-> "GSUB", assigned |-> "gsub"],
       [table |-> "glyf", tested |-> "glyf", assigned |-> "glyf"],
       [table |-> "GlyphNames", tested |-> "GlyphNames", assigned |-> "GlyphNames"] >>

\* if not hasattr(self, tested): self.assigned = self.font[table], for each of
\* the tables in turn; rd counts the reads from the font
RECURSIVE load_tables(_, _, _)
load_tables(self, rd, tabs) ==
    IF tabs = <<>> THEN [self |-> self, reads |-> rd]
    ELSE LET t == Head(tabs)
         IN  IF hasattr(self, t.tested) THEN load_tables(self, rd, Tail(tabs))
             ELSE load_tables(setattr(self, t.assigned, self.font[t.table]),
                              [rd EXCEPT ![t.table] = @ + 1], Tail(tabs))

\* self.cmap.get(ord(c))
cmap_get(cmap, c) == IF c \in DOMAIN cmap.map THEN cmap.map[c] ELSE NoGlyph

\* advs after the loop over chars
char_advs(self, chars) ==
    LET cmap == self.vals["cmap"]
        metrics == self.vals["hmtx"].metrics
        unitsPerEm == self.font.unitsPerEm
    IN  [c \in {k \in Range(chars) : cmap_get(cmap, k) = NoGlyph
                                     \/ cmap_get(cmap, k) \in DOMAIN metrics} |->
            IF cmap_get(cmap, c) = NoGlyph THEN NoneVal
            ELSE FQuot(metrics[cmap_get(cmap, c)][1], unitsPerEm)]

\* bbs after the loop over chars: reading the outline of a glyph that the glyf
\* table lacks, or that has no extent, or of a font without a glyf table
\* raises, and the except clause stores zeros
char_bbs(self, chars) ==
    LET cmap == self.vals["cmap"]
        glyf == self.vals["glyf"]
        unitsPerEm == self.font.unitsPerEm
    IN  [c \in {k \in Range(chars) : cmap_get(cmap, k) # NoGlyph} |->
            LET glyph1 == cmap_get(cmap, c)
            IN  IF glyf.has /\ glyph1 \in DOMAIN glyf.glyphs /\ glyf.glyphs[glyph1].has
                THEN LET glyph == glyf.glyphs[glyph1]
                     IN  << FQuot(glyph.xMin, unitsPerEm),
                            FQuot(-glyph.yMax, unitsPerEm),
                            FQuot(glyph.xMax - glyph.xMin, unitsPerEm),
                            FQuot(glyph.yMax - glyph.yMin, unitsPerEm) >>
                ELSE <<FZero, FZero, FZero, FZero>>]

\* self.ligatures[tuple([first_glyph] + ligature.Component)] = ligature.LigGlyph
\* for each ligature of a ligature set
RECURSIVE add_ligature_set(_, _, _)
add_ligature_set(ligatures, first_glyph, ligature_set) ==
    IF ligature_set = <<>> THEN ligatures
    ELSE add_ligature_set(Upd(ligatures, <<first_glyph>> \o Head(ligature_set).Component,
                              Head(ligature_set).LigGlyph),
                          first_glyph, Tail(ligature_set))

\* the loop over ext_subtable.ligatures.items()
RECURSIVE add_items(_, _)
add_items(ligatures, items) ==
    IF items = <<>> THEN ligatures
    ELSE add_items(add_ligature_set(ligatures, Head(items)[1], Head(items)[2]), Tail(items))

\* the loop over lookup.SubTable: an extension lookup (type 7) is read through
\* its ExtSubTable, and only ligature substitutions (type 4) are taken
RECURSIVE add_subtables(_, _, _)
add_subtables(ligatures, lookup, subtables) ==
    IF subtables = <<>> THEN ligatures
    ELSE LET subtable == Head(subtables)
             ext_subtable == IF lookup.LookupType = 7 THEN subtable.ExtSubTable ELSE subtable
             lookup_type == IF lookup.LookupType = 7 THEN ext_subtable.LookupType
                            ELSE lookup.LookupType
         IN  add_subtables(IF lookup_type = 4 THEN add_items(ligatures, ext_subtable.ligatures)
                           ELSE ligatures,
                           lookup, Tail(subtables))

\* the loop over gsub_table.LookupList.Lookup
RECURSIVE add_lookups(_, _)
add_lookups(ligatures, lookups) ==
    IF lookups = <<>> THEN ligatures
    ELSE add_lookups(add_subtables(ligatures, Head(lookups), Head(lookups).SubTable),
                     Tail(lookups))

\* self.ligatures as built on the first call that reaches it
build_ligatures(gsub) == IF gsub.has THEN add_lookups(<<>>, gsub.Lookup) ELSE <<>>

\* the loop over self.kern.kernTables without the break: the value of the last
\* subtable that defines the pair
RECURSIVE last_kern(_, _)
last_kern(kernTables, pair) ==
    IF kernTables = <<>> THEN NoneVal
    ELSE IF pair \in DOMAIN kernTables[Len(kernTables)]
         THEN [none |-> FALSE, v |-> kernTables[Len(kernTables)][pair]]
         ELSE last_kern(SubSeq(kernTables, 1, Len(kernTables) - 1), pair)

\* the loop over self.kern.kernTables: the value of the first subtable that
\* defines the pair, None (here NoneVal) when there is none
RECURSIVE first_kern(_, _)
first_kern(kernTables, pair) ==
    IF kernTables = <<>> THEN NoneVal
    ELSE IF pair \in DOMAIN Head(kernTables) THEN [none |-> FALSE, v |-> Head(kernTables)[pair]]
         ELSE first_kern(Tail(kernTables), pair)

\* the pair adjustment in design units that looks in the kerning table first
kerning_value_kernfirst(ligatures, metrics, kern, glyph1, glyph2) ==
    LET k == IF kern.has THEN first_kern(kern.kernTables, <<glyph1, glyph2>>) ELSE NoneVal
    IN  IF ~k.none THEN k.v
        ELSE IF <<glyph1, glyph2>> \in DOMAIN ligatures
             THEN metrics[ligatures[<<glyph1, glyph2>>]][1] - metrics[glyph1][1]
                  - metrics[glyph2][1]
             ELSE 0

\* kerning_value of one pair, in design units, 0 for None
kerning_value(ligatures, metrics, kern, glyph1, glyph2) ==
    IF <<glyph1, glyph2>> \in DOMAIN ligatures
    THEN LET ligglyph == ligatures[<<glyph1, glyph2>>]
             awlig == metrics[ligglyph][1]
             aw1 == metrics[glyph1][1]
             aw2 == metrics[glyph2][1]
         IN  awlig - aw1 - aw2
    ELSE LET k == IF kern.has THEN first_kern(kern.kernTables, <<glyph1, glyph2>>)
                  ELSE NoneVal
         IN  IF k.none THEN 0 ELSE k.v

\* dadvs after the loop over pchars, a dict from c to the list of its pc
pair_advs(self, pchars) ==
    LET cmap == self.vals["cmap"]
    IN  [p \in UNION {{<<pc, c>> : pc \in Range(pchars[c])} : c \in DOMAIN pchars} |->
            FQuot(kerning_value(self.vals["ligatures"], self.vals["hmtx"].metrics,
                                self.vals["kern"], cmap_get(cmap, p[1]), cmap_get(cmap, p[2])),
                  self.font.unitsPerEm)]

\* three empty dicts in place of the three None
empty_outputs == [none |-> FALSE, advs |-> <<>>, dadvs |-> <<>>, bbs |-> <<>>]

\* return None, None, None
none_outputs == [none |-> TRUE]

\* get_char_advances(chars, pchars) on the handle self: the handle and the read
\* counts after the call, and the three outputs
get_char_advances(self, rd, chars, pchars) ==
    LET l == load_tables(self, rd, LazyTables)
    IN  IF ~l.self.vals["cmap"].has
        THEN [self |-> l.self, reads |-> l.reads, out |-> none_outputs]
        ELSE LET built == ~hasattr(l.self, "ligatures")
                 self2 == IF built
                          THEN setattr(l.self, "ligatures", build_ligatures(l.self.vals["gsub"]))
                          ELSE l.self
             IN  [self |-> self2,
                  reads |-> IF built THEN [l.reads EXCEPT !["ligatures"] = @ + 1] ELSE l.reads,
                  out |-> [none |-> FALSE,
                           advs |-> char_advs(self2, chars),
                           dadvs |-> pair_advs(self2, pchars),
                           bbs |-> char_bbs(self2, chars)]]

\* the fonts considered: characters 1 and 2 are mapped to the glyphs f and i,
\* character 3 is not mapped, character 4 is mapped to a glyph index past the
\* glyphs of the font, which the table parser names glyph00099 and for which the
\* font has no metrics and no outline; f_i and f_i.alt are ligature glyphs
AdvCmaps ==
    { NoTable, [has |-> TRUE, map |-> (1 :> "f") @@ (2 :> "i") @@ (4 :> "glyph00099")] }

AdvHmtx ==
    [metrics |-> ("f" :> <<300, 10>>) @@ ("i" :> <<250, 20>>) @@ ("f_i" :> <<520, 10>>)
                 @@ ("f_i_f" :> <<800, 10>>) @@ ("f_i.alt" :> <<500, 10>>)]

AdvKerns ==
    { NoTable,
      [has |-> TRUE, kernTables |-> << (<<"f", "i">> :> 0), (<<"f", "i">> :> -40) >>],
      [has |-> TRUE, kernTables |-> << <<>>, (<<"f", "i">> :> -40) >>],
      [has |-> TRUE, kernTables |-> << (<<"f", "i">> :> -25) @@ (<<"i", "f">> :> 15),
                                       (<<"f", "i">> :> -40) >>] }

\* a ligature subtable: f followed by i becomes f_i
LigSubTable ==
    [ligatures |-> << <<"f", << [Component |-> <<"i">>, LigGlyph |-> "f_i"] >> >> >>]

\* a ligature subtable: f, i, f becomes f_i_f and f, i becomes f_i.alt
AltSubTable ==
    [LookupType |-> 4,
     ligatures |-> << <<"f", << [Component |-> <<"i", "f">>, LigGlyph |-> "f_i_f"],
                                [Component |-> <<"i">>, LigGlyph |-> "f_i.alt"] >> >> >>]

\* a single substitution subtable
SingleSubTable == [LookupType |-> 1, mapping |-> ("f" :> "f_i")]

AdvGsubs ==
    { NoTable,
      [has |-> TRUE, Lookup |-> << [LookupType |-> 4, SubTable |-> <<LigSubTable>>] >>],
      [has |-> TRUE, Lookup |-> << [LookupType |-> 7,
                                    SubTable |-> << [ExtSubTable |-> AltSubTable] >>] >>],
      [has |-> TRUE, Lookup |-> << [LookupType |-> 1, SubTable |-> <<SingleSubTable>>] >>],
      [has |-> TRUE, Lookup |-> << [LookupType |-> 7,
                                    SubTable |-> << [ExtSubTable |-> SingleSubTable] >>] >>],
      [has |-> TRUE, Lookup |-> << [LookupType |-> 4, SubTable |-> <<LigSubTable>>],
                                   [LookupType |-> 7,
                                    SubTable |-> << [ExtSubTable |-> AltSubTable] >>] >>] }

AdvGlyfs ==
    { NoTable,
      [has |-> TRUE,
       glyphs |-> ("f" :> [has |-> TRUE, xMin |-> 20, yMin |-> -10, xMax |-> 280, yMax |-> 700])
                  @@ ("i" :> [has |-> FALSE])] }

AdvFonts ==
    {[unitsPerEm |-> 1000, cmap |-> c, hmtx |-> AdvHmtx, kern |-> k, GSUB |-> g, glyf |-> y,
      GlyphNames |-> DOMAIN AdvHmtx.metrics] :
        c \in AdvCmaps, k \in AdvKerns, g \in AdvGsubs, y \in AdvGlyfs}

\* the requests: chars, and pchars, a dict from a character to the list of the
\* characters that precede it
AdvChars == { <<>>, <<1, 2>>, <<3, 1, 1, 4>> }
AdvPchars == { <<>>, (2 :> <<1>>), (2 :> <<1, 3>>) @@ (1 :> <<2>>) }

MaxCalls == 2      \* get_char_advances calls on one handle

InitAdv ==
    /\ IdleResolver
    /\ IdleRenderer
    /\ inst \in {[font |-> f, vals |-> <<>>] : f \in AdvFonts}
    /\ reads = [calls |-> 0, cmap |-> 0, hmtx |-> 0, kern |-> 0, GSUB |-> 0, glyf |-> 0,
                GlyphNames |-> 0, ligatures |-> 0]
    /\ arg = <<>>
    /\ ret = [none |-> TRUE]

GetCharAdvances ==
    /\ reads.calls < MaxCalls
    /\ \E chars \in AdvChars, pchars \in AdvPchars :
           LET r == get_char_advances(inst, reads, chars, pchars)
           IN  /\ inst' = r.self
               /\ reads' = [r.reads EXCEPT !.calls = @ + 1]
               /\ arg' = [chars |-> chars, pchars |-> pchars]
               /\ ret' = r.out
    /\ UNCHANGED <<resolverVars, pango>>

NextAdv == GetCharAdvances

SpecAdv == InitAdv /\ [][NextAdv]_vars

\* the glyph of a character in the font of the handle
GlyphOf(c) == cmap_get(inst.font.cmap, c)

\* C4: every requested pair (pc, c) whose glyph pair has a ligature entry gets
\* the adjustment (advance of the ligature glyph - advance of the first glyph -
\* advance of the second glyph) / unitsPerEm, whatever the kerning table holds
C4_LigatureBeforeKerning ==
    (reads.calls > 0 /\ ~ret.none) =>
        \A p \in DOMAIN ret.dadvs :
            <<GlyphOf(p[1]), GlyphOf(p[2])>> \in DOMAIN inst.vals["ligatures"] =>
                LET metrics == inst.font.hmtx.metrics
                    ligglyph == inst.vals["ligatures"][<<GlyphOf(p[1]), GlyphOf(p[2])>>]
                IN  ret.dadvs[p] =
                        FQuot(metrics[ligglyph][1] - metrics[GlyphOf(p[1])][1]
                              - metrics[GlyphOf(p[2])][1], inst.font.unitsPerEm)

\* the pair (1, 2), glyphs f and i, was requested from a font whose first
\* kerning subtable gives the pair -25 and whose substitution table makes it the
\* ligature f_i: the adjustment is (520 - 300 - 250) / 1000
C4_Witness ==
    /\ reads.calls > 0
    /\ ~ret.none
    /\ <<1, 2>> \in DOMAIN ret.dadvs
    /\ inst.font.kern.has
    /\ <<"f", "i">> \in DOMAIN inst.font.kern.kernTables[1]
    /\ inst.font.kern.kernTables[1][<<"f", "i">>] = -25
    /\ <<"f", "i">> \in DOMAIN inst.vals["ligatures"]
    /\ inst.vals["ligatures"][<<"f", "i">>] = "f_i"
    /\ ret.dadvs[<<1, 2>>] = FQuot(-30, 1000)

\* C13: when the face has a character map, advs has an entry for every requested
\* character: the advance of its glyph divided by unitsPerEm when the character
\* is mapped, None when it is not.
C13_AdvanceForEveryChar ==
    (reads.calls > 0 /\ ~ret.none) =>
        \A c \in Range(arg.chars) :
            /\ c \in DOMAIN ret.advs
            /\ IF GlyphOf(c) = NoGlyph THEN ret.advs[c] = NoneVal
               ELSE /\ GlyphOf(c) \in DOMAIN inst.font.hmtx.metrics
                    /\ ret.advs[c] = FQuot(inst.font.hmtx.metrics[GlyphOf(c)][1],
                                           inst.font.unitsPerEm)

\* C14: when the face has no character map the call returns None for advs, dadvs
\* and bbs, whatever characters and pairs were requested.
C14_NoCmapAllNone ==
    (reads.calls > 0 /\ ~inst.font.cmap.has) => ret = [none |-> TRUE]

\* characters and a pair were requested from a face without a character map
C14_Witness ==
    /\ reads.calls > 0
    /\ ~inst.font.cmap.has
    /\ arg.chars = <<1, 2>>
    /\ arg.pchars = (2 :> <<1>>)
    /\ inst.font.kern.has
    /\ inst.font.GSUB.has
    /\ ret = [none |-> TRUE]

\* the subtables of the font's kerning table that define the glyph pair
Defining(pair) ==
    IF inst.font.kern.has
    THEN {i \in 1..Len(inst.font.kern.kernTables) : pair \in DOMAIN inst.font.kern.kernTables[i]}
    ELSE {}

\* C19: every requested pair (pc, c) whose glyph pair has no ligature entry gets
\* the value that the first kerning subtable defining the glyph pair gives it,
\* divided by unitsPerEm, and 0 when no subtable defines the pair or the face
\* has no kerning table.
C19_FirstKernSubtable ==
    (reads.calls > 0 /\ ~ret.none) =>
        \A p \in DOMAIN ret.dadvs :
            LET pair == <<GlyphOf(p[1]), GlyphOf(p[2])>>
            IN  pair \notin DOMAIN inst.vals["ligatures"] =>
                    IF Defining(pair) = {} THEN ret.dadvs[p] = FZero
                    ELSE LET i == CHOOSE j \in Defining(pair) :
                                      \A k \in Defining(pair) : j <= k
                         IN  ret.dadvs[p] = FQuot(inst.font.kern.kernTables[i][pair],
                                                  inst.font.unitsPerEm)

\* the pair (1, 2), glyphs f and i, has no ligature; the first kerning subtable
\* gives it -25 and the second -40: the adjustment is -25 / 1000
C19_Witness ==
    /\ reads.calls > 0
    /\ ~ret.none
    /\ <<1, 2>> \in DOMAIN ret.dadvs
    /\ <<"f", "i">> \notin DOMAIN inst.vals["ligatures"]
    /\ inst.font.kern.has
    /\ Len(inst.font.kern.kernTables) = 2
    /\ Defining(<<"f", "i">>) = {1, 2}
    /\ inst.font.kern.kernTables[1][<<"f", "i">>] = -25
    /\ ret.dadvs[<<1, 2>>] = FQuot(-25, 1000)
    /\ ret.dadvs[<<1, 2>>] # FQuot(-40, 1000)

\* C20: over the calls on one handle each of the character map, the horizontal
\* metrics, the kerning table, the substitution table, the outline table and the
\* ligature map is read from the font, or built, at most once.
C20_TablesReadOnce ==
    \A t \in {"cmap", "hmtx", "kern", "GSUB", "glyf", "ligatures"} : reads[t] <= 1

-----------------------------------------------------------------------------
(* The matching service: the installed faces and the two queries the code   *)
(* makes. The service is opaque to the code; here a pattern is answered by  *)
(* the faces whose family it names, in the service's preference order, and  *)
(* then by every other face in that order.                                   *)

\* the characters a caller asks for; no installed face covers character 4
Chars == {1, 2, 3, 4}

\* the installed faces by file: "a" regular, "b" bold, "a" book (whose css
\* descriptor is that of the regular face) and a variable face "v" whose weight
\* is a range
FaceDB ==
    [file \in {"a-regular", "b-bold", "a-book", "v-var"} |->
        IF file = "a-regular"
        THEN [family |-> Scalar(<<"a">>), weight |-> Scalar(FC.WEIGHT_NORMAL),
              slant |-> Scalar(FC.SLANT_ROMAN), width |-> Scalar(FC.WIDTH_NORMAL),
              charset |-> {1}]
        ELSE IF file = "b-bold"
        THEN [family |-> Scalar(<<"b">>), weight |-> Scalar(FC.WEIGHT_BOLD),
              slant |-> Scalar(FC.SLANT_ROMAN), width |-> Scalar(FC.WIDTH_NORMAL),
              charset |-> {1, 2}]
        ELSE IF file = "a-book"
        THEN [family |-> Scalar(<<"a">>), weight |-> Scalar(FC.WEIGHT_BOOK),
              slant |-> Scalar(FC.SLANT_ROMAN), width |-> Scalar(FC.WIDTH_NORMAL),
              charset |-> {2, 3}]
        ELSE [family |-> Scalar(<<"v">>),
              weight |-> Tuple2(FC.WEIGHT_LIGHT, FC.WEIGHT_BOLD),
              slant |-> Scalar(FC.SLANT_ROMAN), width |-> Scalar(FC.WIDTH_NORMAL),
              charset |-> {1, 2, 3}]]

\* a found face is a handle of the matching service; f.get(prop, 0)[0] reads it
Face(found) == [file |-> found] @@ FaceDB[found]

\* preference orders of the matching service over the installed faces
Orders ==
    { <<"a-regular", "b-bold", "a-book", "v-var">>,
      <<"b-bold", "v-var", "a-regular", "a-book">>,
      <<"v-var", "a-regular", "b-bold", "a-book">> }

NamedBy(pat, found) ==
    ~Face(found).family.istuple /\ Face(found).family.v \in Range(pat.family)

\* the faces ranked for a pattern, before trimming
Ranked(order, pat) ==
    SelectSeq(order, LAMBDA f : NamedBy(pat, f)) \o SelectSeq(order, LAMBDA f : ~NamedBy(pat, f))

\* trim=True: a face after the first is elided when it covers nothing that the
\* faces kept before it do not cover
RECURSIVE Trim(_, _, _)
Trim(faces, kept, covered) ==
    IF faces = <<>> THEN kept
    ELSE IF kept # <<>> /\ Face(Head(faces)).charset \subseteq covered
         THEN Trim(Tail(faces), kept, covered)
         ELSE Trim(Tail(faces), Append(kept, Head(faces)),
                   covered \cup Face(Head(faces)).charset)

\* conf.font_match(pat): the single best face
font_match(order, pat) == Ranked(order, pat)[1]

\* conf.font_sort(pat, trim=True, want_coverage=False): the ranked faces
font_sort(order, pat) == Trim(Ranked(order, pat), <<>>, {})

-----------------------------------------------------------------------------
(* FontConfig: the resolver and its caches *)

\* the outcome of a call: a returned object, or an exception
Returned(o) == [raised |-> FALSE, obj |-> o]
Raised == [raised |-> TRUE, obj |-> NoneObj]

Log(h, k, o) == Upd(h, k, (IF k \in DOMAIN h THEN h[k] ELSE {}) \cup {o})

\* the reduced styles and the style descriptors the callers pass
Descs ==
    { << <<"fill", "red">>, <<"font-family", <<DQ, "a", DQ>> >>, <<"font-weight", "normal">> >>,
      << <<"font-family", <<"z">> >> >>,
      << <<"font-family", <<SQ, "z", SQ>> >>, <<"font-size", "10px">> >> }

ReducedStyles == {font_style(d) : d \in Descs}

\* pat = css_to_fc_pattern(reducedsty), for each reduced style
PatternOf == [k \in ReducedStyles |-> css_to_fc_pattern(k)]

\* fcfound_to_css(f), for each installed face
CssOf == [f \in DOMAIN FaceDB |-> fcfound_to_css(Face(f))]

\* sty2 = font_style(sty), for each style descriptor
StyleOfDesc == [d \in Descs |-> font_style(d)]


\* get_true_font that reads the items of the descriptor before it stores the
\* matched face: a None descriptor raises with only truefonts written
get_true_font_facelater(tf, tfc, fcs, n, reducedsty) ==
    LET nftuple == reducedsty
    IN  IF nftuple \in DOMAIN tf
        THEN [tf |-> tf, tfc |-> tfc, fcs |-> fcs, n |-> n,
              out |-> Returned(tf[nftuple]), queried |-> FALSE]
        ELSE LET found == font_match(fcorder, PatternOf[reducedsty])
                 css == CssOf[found]
             IN  IF css.none
                 THEN [tf |-> Upd(tf, nftuple, NoneObj), tfc |-> tfc,
                       fcs |-> fcs, n |-> n, out |-> Raised, queried |-> TRUE]
                 ELSE LET truefont == [id |-> n + 1, css |-> css.css]
                      IN  [tf |-> Upd(tf, nftuple, truefont),
                           tfc |-> Upd(tfc, nftuple, found),
                           fcs |-> Upd(fcs, css.css, Face(found).charset),
                           n |-> n + 1, out |-> Returned(truefont), queried |-> TRUE]

\* FontConfig.get_true_font(reducedsty) run on the caches (tf, tfc, fcs, n): the
\* caches after the call, its outcome, and whether the matching service was asked
get_true_font(tf, tfc, fcs, n, reducedsty) ==
    LET nftuple == reducedsty
    IN  IF nftuple \in DOMAIN tf
        THEN [tf |-> tf, tfc |-> tfc, fcs |-> fcs, n |-> n,
              out |-> Returned(tf[nftuple]), queried |-> FALSE]
        ELSE LET found == font_match(fcorder, PatternOf[reducedsty])
                 css == CssOf[found]
             IN  IF css.none
                 \* truefonts and truefontsfc are written, then None.items() raises
                 THEN [tf |-> Upd(tf, nftuple, NoneObj), tfc |-> Upd(tfc, nftuple, found),
                       fcs |-> fcs, n |-> n, out |-> Raised, queried |-> TRUE]
                 ELSE LET truefont == [id |-> n + 1, css |-> css.css]
                      IN  [tf |-> Upd(tf, nftuple, truefont),
                           tfc |-> Upd(tfc, nftuple, found),
                           fcs |-> Upd(fcs, css.css, Face(found).charset),
                           n |-> n + 1, out |-> Returned(truefont), queried |-> TRUE]

Init ==
    /\ truefonts = <<>>
    /\ truefontsfc = <<>>
    /\ truefontsft = <<>>
    /\ fontcharsets = <<>>
    /\ true_style_cache = <<>>
    /\ nobj = 0
    /\ nopen = 0
    /\ fcorder \in Orders
    /\ last = [op |-> "none"]
    /\ gtf_out = <<>>
    /\ ts_out = <<>>
    /\ IdleHandle
    /\ IdleRenderer
    /\ arg = <<>>
    /\ ret = <<>>

GetTrueFont ==
    \E k \in ReducedStyles :
        LET r == get_true_font(truefonts, truefontsfc, fontcharsets, nobj, k)
        IN  /\ truefonts' = r.tf
            /\ truefontsfc' = r.tfc
            /\ fontcharsets' = r.fcs
            /\ nobj' = r.n
            /\ gtf_out' = Log(gtf_out, k, r.out)
            /\ last' = [op |-> "get_true_font", key |-> k, out |-> r.out,
                        gtf |-> TRUE, gtf_repeat |-> k \in DOMAIN gtf_out,
                        gtf_queried |-> r.queried]
            /\ UNCHANGED <<truefontsft, true_style_cache, nopen, fcorder, ts_out, inst, reads, pango, arg, ret>>

\* true_style(sty) under its lru_cache: a result is stored when the call returns
TrueStyle ==
    \E d \in Descs :
        IF d \in DOMAIN true_style_cache
        THEN /\ ts_out' = Log(ts_out, d, Returned(true_style_cache[d]))
             /\ last' = [op |-> "true_style", key |-> d,
                         out |-> Returned(true_style_cache[d]), gtf |-> FALSE]
             /\ UNCHANGED <<truefonts, truefontsfc, truefontsft, fontcharsets,
                            true_style_cache, nobj, nopen, fcorder, gtf_out, inst, reads, pango, arg, ret>>
        ELSE LET sty2 == StyleOfDesc[d]
                 r == get_true_font(truefonts, truefontsfc, fontcharsets, nobj, sty2)
             IN  /\ truefonts' = r.tf
                 /\ truefontsfc' = r.tfc
                 /\ fontcharsets' = r.fcs
                 /\ nobj' = r.n
                 /\ gtf_out' = Log(gtf_out, sty2, r.out)
                 /\ true_style_cache' =
                        IF r.out.raised THEN true_style_cache
                        ELSE Upd(true_style_cache, d, r.out.obj)
                 /\ ts_out' = Log(ts_out, d, r.out)
                 /\ last' = [op |-> "true_style", key |-> d, out |-> r.out,
                             gtf |-> TRUE, gtf_repeat |-> sty2 \in DOMAIN gtf_out,
                             gtf_queried |-> r.queried]
                 /\ UNCHANGED <<truefontsft, nopen, fcorder, inst, reads, pango, arg, ret>>

\* requested characters: none, one, a repeated one, several
Requests == { <<>>, <<1>>, <<2>>, <<3>>, <<4>>, <<2, 2>>, <<1, 4>>, <<3, 2>> }

\* a Style object that fcfound_to_css built and that no cache holds
Fresh(css) == [id |-> -1, css |-> css]

\* an update that adds no key: only the keys that d has are given the value
Assign_nonew(d, ks, v) == [x \in DOMAIN d |-> IF x \in ks THEN v ELSE d[x]]

\* d.update({k: v for k in ks}) on a dict held as a function
Assign(d, ks, v) == [x \in (DOMAIN d) \cup ks |-> IF x \in ks THEN v ELSE d[x]]

\* the coverage of every face of a list written to the coverage cache
RECURSIVE write_all(_, _)
write_all(found, fcs) ==
    IF found = <<>> THEN fcs
    ELSE IF CssOf[Head(found)].none THEN write_all(Tail(found), fcs)
    ELSE write_all(Tail(found), Upd(fcs, CssOf[Head(found)].css, Face(Head(found)).charset))

\* the loop with the coverage of the faces after the stopping point written too
RECURSIVE walk_found_writeall(_, _, _, _)
walk_found_writeall(found, chars, d, fcs) ==
    IF found = <<>> THEN [d |-> d, fcs |-> fcs, raised |-> FALSE]
    ELSE LET f == Face(Head(found))
             truefont == CssOf[Head(found)]
         IN  IF truefont.none THEN [d |-> d, fcs |-> fcs, raised |-> TRUE]
             ELSE LET cs == f.charset
                      fcs2 == Upd(fcs, truefont.css, cs)
                      d2 == [x \in (DOMAIN d) \cup {k \in Range(chars) : k \in cs} |->
                                IF x \in DOMAIN d THEN d[x] ELSE [id |-> -1, css |-> truefont.css]]
                  IN  IF Cardinality(DOMAIN d2) = Len(chars)
                      THEN [d |-> d2, fcs |-> write_all(Tail(found), fcs2), raised |-> FALSE]
                      ELSE walk_found_writeall(Tail(found), chars, d2, fcs2)

\* the loop over the ranked faces of get_true_font_by_char: the dict d and the
\* coverage cache after it, and whether truefont.items() raised on a None
RECURSIVE walk_found(_, _, _, _)
walk_found(found, chars, d, fcs) ==
    IF found = <<>> THEN [d |-> d, fcs |-> fcs, raised |-> FALSE]
    ELSE LET f == Face(Head(found))
             truefont == CssOf[Head(found)]
         IN  IF truefont.none THEN [d |-> d, fcs |-> fcs, raised |-> TRUE]
             ELSE LET cs == f.charset
                      fcs2 == Upd(fcs, truefont.css, cs)
                      d2 == Assign(d, {k \in Range(chars) : k \in cs /\ k \notin DOMAIN d},
                                   Fresh(truefont.css))
                  IN  IF Cardinality(DOMAIN d2) = Len(chars)
                      THEN [d |-> d2, fcs |-> fcs2, raised |-> FALSE]
                      ELSE walk_found(Tail(found), chars, d2, fcs2)

\* FontConfig.get_true_font_by_char(reducedsty, chars) run on the caches
get_true_font_by_char(tf, fcs, reducedsty, chars) ==
    LET nftuple == reducedsty
        cached == nftuple \in DOMAIN tf
    IN  IF cached /\ IsNone(tf[nftuple]) /\ chars # <<>>
        \* the filter of the first comprehension calls None.items()
        THEN [fcs |-> fcs, out |-> <<>>, raised |-> TRUE, queried |-> FALSE]
        ELSE LET d == IF cached
                      THEN Assign(<<>>, {k \in Range(chars) : k \in fcs[tf[nftuple].css]},
                                  tf[nftuple])
                      ELSE <<>>
             IN  IF Cardinality(DOMAIN d) < Len(chars)
                 THEN LET found == font_sort(fcorder, PatternOf[reducedsty])
                          w == walk_found(found, chars, d, fcs)
                      IN  [fcs |-> w.fcs,
                           out |-> IF Cardinality(DOMAIN w.d) < Len(chars)
                                   THEN Assign(w.d, Range(chars) \ DOMAIN w.d, NoneObj)
                                   ELSE w.d,
                           raised |-> w.raised, queried |-> TRUE]
                 ELSE [fcs |-> fcs, out |-> d, raised |-> FALSE, queried |-> FALSE]

GetTrueFontByChar ==
    \E k \in ReducedStyles, chars \in Requests :
        LET r == get_true_font_by_char(truefonts, fontcharsets, k, chars)
        IN  /\ fontcharsets' = r.fcs
            /\ last' = [op |-> "get_true_font_by_char", key |-> k, chars |-> chars,
                        out |-> r.out, raised |-> r.raised, queried |-> r.queried,
                        gtf |-> FALSE]
            /\ UNCHANGED <<truefonts, truefontsfc, truefontsft, true_style_cache, nobj,
                           nopen, fcorder, gtf_out, ts_out, inst, reads, pango, arg, ret>>

\* a handle built for the face in the file a-book, whatever face was matched
FontTools_FontInstance_book(n, found) == [id |-> n, file |-> Face("a-book").file]

\* FontTools_FontInstance(found): the handle built for a matched face
FontTools_FontInstance(n, found) == [id |-> n, file |-> Face(found).file]

GetFonttoolsFont ==
    \E k \in ReducedStyles :
        IF k \in DOMAIN truefontsft
        THEN /\ last' = [op |-> "get_fonttools_font", key |-> k,
                         out |-> Returned(truefontsft[k]), gtf |-> FALSE, opened |-> FALSE]
             /\ UNCHANGED <<truefonts, truefontsfc, truefontsft, fontcharsets,
                            true_style_cache, nobj, nopen, fcorder, gtf_out, ts_out,
                            inst, reads, pango, arg, ret>>
        ELSE LET nested == k \notin DOMAIN truefontsfc
                 r == get_true_font(truefonts, truefontsfc, fontcharsets, nobj, k)
             IN  /\ truefonts' = IF nested THEN r.tf ELSE truefonts
                 /\ truefontsfc' = IF nested THEN r.tfc ELSE truefontsfc
                 /\ fontcharsets' = IF nested THEN r.fcs ELSE fontcharsets
                 /\ nobj' = IF nested THEN r.n ELSE nobj
                 /\ gtf_out' = IF nested THEN Log(gtf_out, k, r.out) ELSE gtf_out
                 /\ IF nested /\ r.out.raised
                    \* the exception of the nested get_true_font leaves the call
                    THEN /\ truefontsft' = truefontsft
                         /\ nopen' = nopen
                         /\ last' = [op |-> "get_fonttools_font", key |-> k, out |-> Raised,
                                     gtf |-> TRUE, gtf_repeat |-> k \in DOMAIN gtf_out,
                                     gtf_queried |-> r.queried, opened |-> FALSE]
                    ELSE LET h == FontTools_FontInstance(nopen + 1, truefontsfc'[k])
                         IN  /\ truefontsft' = Upd(truefontsft, k, h)
                             /\ nopen' = nopen + 1
                             /\ last' = [op |-> "get_fonttools_font", key |-> k,
                                         out |-> Returned(h), gtf |-> nested,
                                         gtf_repeat |-> k \in DOMAIN gtf_out,
                                         gtf_queried |-> nested /\ r.queried,
                                         opened |-> TRUE]
                 /\ UNCHANGED <<true_style_cache, fcorder, ts_out, inst, reads, pango, arg, ret>>

Next == GetTrueFont \/ GetTrueFontByChar \/ GetFonttoolsFont \/ TrueStyle

Spec == Init /\ [][Next]_vars

-----------------------------------------------------------------------------
(* Properties of the resolver *)

\* the reduced style of the get_true_font call that the last operation made
LastStyle == IF last.op = "true_style" THEN StyleOfDesc[last.key] ELSE last.key

\* the matched face of style k reports a list-valued attribute
Ambiguous(k) == k \in DOMAIN truefontsfc /\ CssOf[truefontsfc[k]].none

\* C5: when the matched face reports a list-valued family, weight, slant or
\* width, every get_true_font call for that style, the first one included,
\* returns none and does not raise
C5_NoneWithoutRaising ==
    \A k \in DOMAIN gtf_out : Ambiguous(k) => gtf_out[k] = {Returned(NoneObj)}

\* C1: when get_true_font runs again for a reduced style it has seen, all its
\* calls for that style have returned one identical object, and the later call
\* does not ask the matching service
C1_SameObjectNoQuery ==
    (last.op # "none" /\ last.gtf /\ last.gtf_repeat) =>
        /\ Cardinality(gtf_out[LastStyle]) = 1
        /\ \A o \in gtf_out[LastStyle] : ~o.raised
        /\ ~last.gtf_queried

\* C2: two style descriptors with equal font_style have equal true_style: all
\* the outcomes of true_style on them, over the whole run, are the same
C2_TrueStyleOfEqualStyles ==
    \A d1 \in DOMAIN ts_out, d2 \in DOMAIN ts_out :
        StyleOfDesc[d1] = StyleOfDesc[d2] =>
            \A x \in ts_out[d1], y \in ts_out[d2] :
                /\ x.raised = y.raised
                /\ IsNone(x.obj) = IsNone(y.obj)
                /\ x.obj.css = y.obj.css

\* the first face of a ranked list that covers character c, or "none"
RECURSIVE FirstCovering(_, _)
FirstCovering(found, c) ==
    IF found = <<>> THEN "none"
    ELSE IF c \in Face(Head(found)).charset THEN Head(found)
         ELSE FirstCovering(Tail(found), c)

\* C3: when get_true_font_by_char returns, every requested character that the
\* primary face of the style lacks is assigned the descriptor of the first face
\* of the ranked order that covers it, and none only when no ranked face does
C3_FirstCoveringFace ==
    (last.op = "get_true_font_by_char" /\ ~last.raised) =>
        LET found == font_sort(fcorder, PatternOf[last.key])
        IN  \A c \in Range(last.chars) :
                c \notin Face(found[1]).charset =>
                    LET f == FirstCovering(found, c)
                    IN  IF f = "none" THEN IsNone(last.out[c])
                        ELSE /\ ~IsNone(last.out[c])
                             /\ last.out[c].css = CssOf[f].css

\* the characters that the cached primary face of style k covers: those of the
\* face that get_true_font matched for k, none when k has not been resolved
PrimaryCoverage(k) ==
    IF k \in DOMAIN truefontsfc THEN Face(truefontsfc[k]).charset ELSE {}

\* C17: a get_true_font_by_char call queries the matching service only when some
\* requested character is not covered by the cached primary face of the style;
\* when the primary face is cached and covers every requested character, the
\* call returns the primary face's Style object for each of them and does not
\* query the matching service.
C17_SearchOnlyWhenUncovered ==
    last.op = "get_true_font_by_char" =>
        LET covered == \A c \in Range(last.chars) : c \in PrimaryCoverage(last.key)
        IN  /\ last.queried => ~covered
            /\ (last.key \in DOMAIN truefontsfc /\ covered) =>
                   /\ ~last.raised
                   /\ ~last.queried
                   /\ \A c \in Range(last.chars) : last.out[c] = truefonts[last.key]

\* every entry of cache c is an entry of cache d, with the same value
Kept(c, d) == \A k \in DOMAIN c : k \in DOMAIN d /\ d[k] = c[k]

\* C9: no step removes an entry of truefonts, truefontsfc, truefontsft or
\* fontcharsets, or changes the value stored under a populated key
C9_CacheEntriesStable ==
    [][/\ Kept(truefonts, truefonts')
       /\ Kept(truefontsfc, truefontsfc')
       /\ Kept(truefontsft, truefontsft')
       /\ Kept(fontcharsets, fontcharsets')]_vars

\* C25: in every reachable state truefonts and truefontsfc have the same keys and
\* every key of truefontsft is one of them, also after a get_true_font call
\* that raised.
C25_CacheKeysAgree ==
    /\ DOMAIN truefonts = DOMAIN truefontsfc
    /\ DOMAIN truefontsft \subseteq DOMAIN truefontsfc

\* a get_true_font call has just raised for a style that now is a key of both
\* caches, while another style has a handle and this one has none
C25_Witness ==
    /\ last.op = "get_true_font"
    /\ last.out.raised
    /\ last.key \in DOMAIN truefonts
    /\ last.key \in DOMAIN truefontsfc
    /\ last.key \notin DOMAIN truefontsft
    /\ truefontsft # <<>>

\* C26: for every cached style k with a non-none descriptor,
\* fontcharsets[items(truefonts[k])] is the coverage set of the face stored in
\* truefontsfc[k]; and a get_true_font_by_char call assigns a character to the
\* cached primary face only if that face covers the character.
C26_PrimaryCoverageCached ==
    /\ \A k \in DOMAIN truefonts :
           ~IsNone(truefonts[k]) =>
               /\ truefonts[k].css \in DOMAIN fontcharsets
               /\ fontcharsets[truefonts[k].css] = Face(truefontsfc[k]).charset
    /\ (last.op = "get_true_font_by_char" /\ ~last.raised /\ last.key \in DOMAIN truefonts) =>
           \A c \in DOMAIN last.out :
               last.out[c] = truefonts[last.key] => c \in Face(truefontsfc[last.key]).charset

\* C27: the mapping that a get_true_font_by_char call returns has exactly the
\* requested characters as its keys, for repeated characters, characters that
\* no face covers and the empty request alike.
C27_KeysAreRequestedChars ==
    (last.op = "get_true_font_by_char" /\ ~last.raised) =>
        DOMAIN last.out = Range(last.chars)

\* a request of a character of a lower-ranked face and a character that no
\* ranked face covers has returned, the latter as none
C27_Witness ==
    /\ last.op = "get_true_font_by_char"
    /\ ~last.raised
    /\ last.queried
    /\ Len(last.chars) = 2
    /\ DOMAIN last.out = Range(last.chars)
    /\ \E c, e \in Range(last.chars) : IsNone(last.out[c]) /\ ~IsNone(last.out[e])

\* the requested characters that the coverage cached for the primary face of
\* style k holds before the search
DirectHits(k, chars) ==
    IF k \in DOMAIN truefonts /\ ~IsNone(truefonts[k])
    THEN {c \in Range(chars) : c \in fontcharsets[truefonts[k].css]}
    ELSE {}

\* the characters among cs that the first i faces of a ranked list cover
CoveredBy(found, i, cs) == {c \in cs : \E j \in 1..i : c \in Face(found[j]).charset}

\* the ranked faces that a call for style k and chars inspects: none when the
\* direct hits answer the request; otherwise those up to the first one at which
\* the dict has as many keys as the request has characters or whose descriptor
\* is None, or all of them when there is no such face
Inspected(k, chars) ==
    LET found == font_sort(fcorder, PatternOf[k])
        hits == DirectHits(k, chars)
        stops(i) == \/ CssOf[found[i]].none
                    \/ Cardinality(hits \cup CoveredBy(found, i, Range(chars))) = Len(chars)
        last_i == IF \E i \in 1..Len(found) : stops(i)
                  THEN CHOOSE i \in 1..Len(found) : stops(i) /\ \A j \in 1..(i - 1) : ~stops(j)
                  ELSE Len(found)
    IN  IF Cardinality(hits) < Len(chars) THEN {found[i] : i \in 1..last_i} ELSE {}

\* C28: a get_true_font_by_char call leaves truefonts, truefontsfc and
\* truefontsft (and every other cache but fontcharsets) as they were, and every
\* entry of fontcharsets that it adds or changes is the entry of the descriptor
\* of a ranked face that it inspected before it stopped.
C28_WritesOnlyInspectedCoverage ==
    [][last'.op = "get_true_font_by_char" =>
         /\ UNCHANGED <<truefonts, truefontsfc, truefontsft, true_style_cache>>
         /\ \A key \in DOMAIN fontcharsets' :
                (key \notin DOMAIN fontcharsets \/ fontcharsets'[key] # fontcharsets[key]) =>
                    \E f \in Inspected(last'.key, last'.chars) :
                        /\ ~CssOf[f].none
                        /\ CssOf[f].css = key
                        /\ fontcharsets'[key] = Face(f).charset]_vars

\* a call on empty caches has stopped before the end of the ranked list: the
\* coverage of one face is written, and a ranked face after it has no entry
C28_Witness ==
    /\ last.op = "get_true_font_by_char"
    /\ last.queried
    /\ ~last.raised
    /\ truefonts = <<>>
    /\ Cardinality(DOMAIN fontcharsets) = 1
    /\ \E f \in Range(font_sort(fcorder, PatternOf[last.key])) :
           ~CssOf[f].none /\ CssOf[f].css \notin DOMAIN fontcharsets

\* C21: a get_fonttools_font call runs get_true_font only when the style has no
\* cached matched face; a call that returns a newly built handle has built it for
\* the face cached in truefontsfc and caches it; a call for a style whose handle
\* is cached returns that very handle and opens no font.
C21_HandleFromCachedFaceOnce ==
    [][last'.op = "get_fonttools_font" =>
         LET k == last'.key
         IN  /\ last'.gtf => k \notin DOMAIN truefontsfc
             /\ k \in DOMAIN truefontsfc => UNCHANGED <<truefonts, truefontsfc, fontcharsets>>
             /\ (~last'.out.raised /\ k \notin DOMAIN truefontsft) =>
                    /\ last'.out.obj.file = Face(truefontsfc'[k]).file
                    /\ truefontsft'[k] = last'.out.obj
                    /\ \A j \in DOMAIN truefontsft : truefontsft[j].id # last'.out.obj.id
             /\ k \in DOMAIN truefontsft =>
                    /\ last'.out = Returned(truefontsft[k])
                    /\ nopen' = nopen
                    /\ truefontsft' = truefontsft]_vars

\* a later call has returned the cached handle of a style whose face was matched
\* by an earlier get_true_font, and another style has a handle of its own
C21_Witness ==
    /\ last.op = "get_fonttools_font"
    /\ ~last.opened
    /\ ~last.out.raised
    /\ last.out.obj = truefontsft[last.key]
    /\ last.out.obj.file = Face(truefontsfc[last.key]).file
    /\ nopen = 2
    /\ \E j \in DOMAIN truefontsft : truefontsft[j].id # last.out.obj.id

-----------------------------------------------------------------------------
(* PangoRenderer: the shaping backend                                       *)
(* The renderer is [made, haspangoFT2, numerrlogs, fd, clusters]: fd is the  *)
(* font description set on its layout, clusters the extents, in backend     *)
(* units, that the layout reports for the text set on it, one per character. *)

PANGOSIZE == 1024 * 4
\* Pango.SCALE
SCALE == 1024

\* CSS to Pango
CSSVAR_to_PVAR ==
    << <<"normal", "Variant.NORMAL">>, <<"small-caps", "Variant.SMALL_CAPS">> >>

CSSSTY_to_PSTY ==
    << <<"normal", "Style.NORMAL">>, <<"italic", "Style.ITALIC">>,
       <<"oblique", "Style.OBLIQUE">> >>

CSSWGT_to_PWGT ==
    << <<"normal", "Weight.NORMAL">>, <<"bold", "Weight.BOLD">>,
       <<"100", "Weight.THIN">>, <<"200", "Weight.ULTRALIGHT">>,
       <<"300", "Weight.LIGHT">>, <<"400", "Weight.NORMAL">>,
       <<"500", "Weight.MEDIUM">>, <<"600", "Weight.SEMIBOLD">>,
       <<"700", "Weight.BOLD">>, <<"800", "Weight.ULTRABOLD">>,
       <<"900", "Weight.HEAVY">> >>

CSSSTR_to_PSTR ==
    << <<"ultra-condensed", "Stretch.ULTRA_CONDENSED">>,
       <<"extra-condensed", "Stretch.EXTRA_CONDENSED">>,
       <<"condensed", "Stretch.CONDENSED">>,
       <<"semi-condensed", "Stretch.SEMI_CONDENSED">>,
       <<"normal", "Stretch.NORMAL">>,
       <<"semi-expanded", "Stretch.SEMI_EXPANDED">>,
       <<"expanded", "Stretch.EXPANDED">>,
       <<"extra-expanded", "Stretch.EXTRA_EXPANDED">>,
       <<"ultra-expanded", "Stretch.ULTRA_EXPANDED">> >>

\* css_to_pango_description_fcn, followed by fd.set_absolute_size(size)
css_to_pango_description(sty, size) ==
    [family  |-> strip(Get(sty, "font-family"), SQ) \o <<COMMA>>,
     weight  |-> LookupOr(CSSWGT_to_PWGT, sty, "font-weight", "Weight.NORMAL"),
     variant |-> LookupOr(CSSVAR_to_PVAR, sty, "font-variant", "Variant.NORMAL"),
     style   |-> LookupOr(CSSSTY_to_PSTY, sty, "font-style", "Style.NORMAL"),
     stretch |-> LookupOr(CSSSTR_to_PSTR, sty, "font-stretch", "Stretch.NORMAL"),
     absolute_size |-> size]

\* Pango.units_from_double(d) for a whole number d
pufd(d) == d * SCALE

\* what load_font answers: None, or a font with these metrics in backend units
LoadOutcomes ==
    { NoneVal, [none |-> FALSE, height |-> 4774874, ascent |-> 3774874, descent |-> 1000000] }

MaxClusters == 4       \* clusters of a rendered text

\* logical x-origins in backend units after the line start, which is at 0: a
\* position close to the upper end of the 32-bit range, and a position past
\* it, which has wrapped around to the lower end
XUnits == {2^30 + (2^30 - 2^22), -(2^30) - (2^30 - 2^21)}

\* the extents of a cluster with logical x-origin x
Cluster(x) ==
    [logical_rect |-> [x |-> x, y |-> 0, width |-> 2^21, height |-> 4774874],
     ink_rect |-> [x |-> x + 2^18, y |-> 2^20, width |-> 2^20, height |-> 2^21]]

\* the numbers of backend units that occur in the fonts and clusters above
UnitValues ==
    {0} \cup UNION {{f.height, f.ascent, f.descent} : f \in LoadOutcomes \ {NoneVal}}
        \cup UNION {{Cluster(x).logical_rect[k], Cluster(x).ink_rect[k]} :
                       x \in XUnits \cup {0}, k \in {"x", "y", "width", "height"}}

\* self.putd(v) / self.PANGOSIZE for each of them
UnitsToEm == [v \in UnitValues |-> FDiv(FQuot(v, SCALE), FromInt(PANGOSIZE))]

\* self.putd(v) / self.PANGOSIZE: backend units to fractions of the em
units_to_em(v) == UnitsToEm[v]

\* the same conversion of each number of a list
to_em_each(vs) == [i \in 1..Len(vs) |-> units_to_em(vs[i])]

\* A style string is represented by its split: the sequence of its segments
\* between semicolons, each the sequence of its parts between colons.
\* {s.split(":")[0]: s.split(":")[1] for s in sty2}: a later segment with the
\* same key replaces the value of an earlier one
RECURSIVE parse_style(_, _)
parse_style(sty2, segments) ==
    IF segments = <<>> THEN sty2
    ELSE parse_style(Put(sty2, Head(segments)[1], Head(segments)[2]), Tail(segments))

msty == <<"font-family", "font-weight", "font-style", "font-variant", "font-stretch">>

\* for m in msty: if m not in sty2: sty2[m] = default_style_atts[m]
RECURSIVE fill_mandatory(_, _)
fill_mandatory(sty2, ms) ==
    IF ms = <<>> THEN sty2
    ELSE fill_mandatory(IF HasKey(sty2, Head(ms)) THEN sty2
                        ELSE Put(sty2, Head(ms), default_style_atts(Head(ms))),
                        Tail(ms))

\* success as computed after load_font returned fnt; logsafter is numerrlogs then
load_success(haspangoFT2, logsbefore, logsafter, fnt) ==
    IF ~haspangoFT2 THEN logsafter = logsbefore /\ ~fnt.none
    ELSE ~fnt.none

\* Set_Text_Style that reads the metrics of fnt without testing it: fnt.get_metrics()
\* raises AttributeError when load_font answered None
Set_Text_Style_unchecked(self, stystr, fnt) ==
    IF (\E i \in 1..Len(stystr) : Len(stystr[i]) < 2) \/ fnt.none
    THEN [self |-> self, raised |-> TRUE]
    ELSE [self |-> [self EXCEPT !.fd = css_to_pango_description(
                                           fill_mandatory(parse_style(<<>>, stystr), msty),
                                           pufd(PANGOSIZE))],
          raised |-> FALSE, success |-> TRUE,
          fm |-> [none |-> FALSE,
                  v |-> to_em_each(<<fnt.height, fnt.ascent, fnt.descent>>)]]

\* Set_Text_Style that sets the description on the layout before it knows
\* whether the font loaded
Set_Text_Style_eager(self, stystr, fnt) ==
    IF \E i \in 1..Len(stystr) : Len(stystr[i]) < 2
    THEN [self |-> self, raised |-> TRUE]
    ELSE IF load_success(self.haspangoFT2, self.numerrlogs, self.numerrlogs, fnt)
    THEN [self |-> [self EXCEPT !.fd = css_to_pango_description(
                                           fill_mandatory(parse_style(<<>>, stystr), msty),
                                           pufd(PANGOSIZE))],
          raised |-> FALSE, success |-> TRUE,
          fm |-> [none |-> FALSE,
                  v |-> to_em_each(<<fnt.height, fnt.ascent, fnt.descent>>)]]
    ELSE [self |-> [self EXCEPT !.fd = css_to_pango_description(
                                           fill_mandatory(parse_style(<<>>, stystr), msty),
                                           pufd(PANGOSIZE))],
          raised |-> FALSE, success |-> FALSE, fm |-> NoneVal]

\* Set_Text_Style(stystr) on the renderer self when load_font answers fnt, None
\* or a font with its metrics in backend units: the renderer after the call
\* and the outcome. A segment without a colon raises IndexError (line 909).
Set_Text_Style(self, stystr, fnt) ==
    IF \E i \in 1..Len(stystr) : Len(stystr[i]) < 2
    THEN [self |-> self, raised |-> TRUE]
    ELSE LET sty2 == fill_mandatory(parse_style(<<>>, stystr), msty)
             fd == css_to_pango_description(sty2, pufd(PANGOSIZE))
             logsbefore == self.numerrlogs
             success == load_success(self.haspangoFT2, logsbefore, self.numerrlogs, fnt)
         IN  IF success
             THEN [self |-> [self EXCEPT !.fd = fd], raised |-> FALSE, success |-> TRUE,
                   fm |-> [none |-> FALSE,
                           v |-> to_em_each(<<fnt.height, fnt.ascent, fnt.descent>>)]]
             ELSE [self |-> self, raised |-> FALSE, success |-> FALSE, fm |-> NoneVal]

\* a layout that keeps the clusters of its earlier text before those of the new
Render_Text_appending(self, clusters, numunknown) ==
    [self EXCEPT !.clusters = IF Len(@ \o clusters) <= MaxClusters THEN @ \o clusters
                              ELSE clusters,
                 !.numunknown = @ + numunknown]

\* Render_Text(texttorender): the layout shapes the text into clusters, numunknown
\* of whose glyphs no face has; a text is represented by this shaping of it
Render_Text(self, clusters, numunknown) ==
    [self EXCEPT !.clusters = clusters, !.numunknown = numunknown]

\* a float below zero
FNegative(x) == ~FIsZero(x) /\ x.s = 1

\* process_extents(ext, ascent): the logical rectangle, the ink rectangle and
\* the ink rectangle relative to the anchor, as [x, y, width, height] in ems
rect_to_em(r) == to_em_each(<<r.x, r.y, r.width, r.height>>)

\* ir_rel of lines 953-955 for the converted rectangles lr and ir
with_ir_rel(lr, ir, ascent) ==
    <<lr, ir, << FSub(ir[1], lr[1]), FSub(FSub(ir[2], lr[2]), ascent), ir[3], ir[4] >> >>

process_extents(ext, ascent) ==
    with_ir_rel(rect_to_em(ext.logical_rect), rect_to_em(ext.ink_rect), ascent)

\* 2 ** 32, which exceeds the integers of the model, as a float
FTwo32 == [s |-> 0, m |-> TWO52, e |-> -20]

\* 2**32 / (self.scale * self.PANGOSIZE)
wrap_unit == FDiv(FTwo32, FromInt(SCALE * PANGOSIZE))

\* the test that grows unwrapper on every cluster with a negative origin
wraps_every_negative(x, lastpos) == FNegative(x)

\* ext[0][0] < 0 and lastpos
wraps(x, lastpos) == FNegative(x) /\ lastpos

\* the clusters the layout iterator visits: the layout of an empty text has
\* one position, of zero extent
ZeroRect == [x |-> 0, y |-> 0, width |-> 0, height |-> 0]
visited(clusters) ==
    IF clusters = <<>> THEN << [logical_rect |-> ZeroRect, ink_rect |-> ZeroRect] >>
    ELSE clusters

\* unwrapper after lines 975-976 for a cluster with logical x-origin x
unwrap(x, lastpos, unwrapper) ==
    IF wraps(x, lastpos) THEN FAdd(unwrapper, wrap_unit) ELSE unwrapper

\* the extents with the two x-origins moved by the unwrapper (lines 978-983)
shifted(ext, unwrapper) ==
    << [ext[1] EXCEPT ![1] = FAdd(@, unwrapper)],
       [ext[2] EXCEPT ![1] = FAdd(@, unwrapper)],
       ext[3] >>

\* the while loop of Get_Character_Extents from position ii on
RECURSIVE walk_clusters(_, _, _, _, _, _, _)
RECURSIVE walk_extent(_, _, _, _, _, _, _, _)
walk_clusters(cl, needexts, ascent, ii, lastpos, unwrapper, ws) ==
    IF ii > Len(cl) THEN ws
    ELSE IF needexts[ii] = "1"
         THEN walk_extent(cl, needexts, ascent, ii, process_extents(cl[ii], ascent),
                          lastpos, unwrapper, ws)
         ELSE walk_clusters(cl, needexts, ascent, ii + 1, lastpos, unwrapper,
                            Append(ws, NoneVal))

\* lines 975-983 for the extents ext of position ii, and the rest of the loop
walk_extent(cl, needexts, ascent, ii, ext, lastpos, unwrapper, ws) ==
    walk_clusters(cl, needexts, ascent, ii + 1, ~FNegative(ext[1][1]),
                  unwrap(ext[1][1], lastpos, unwrapper),
                  Append(ws, [none |-> FALSE,
                              ext |-> shifted(ext, unwrap(ext[1][1], lastpos, unwrapper))]))

\* Get_Character_Extents(ascent, needexts): needexts[ii] raises IndexError when
\* the mask is shorter than the text (line 973)
Get_Character_Extents(self, ascent, needexts) ==
    IF Len(needexts) < Len(visited(self.clusters)) THEN [raised |-> TRUE]
    ELSE [raised |-> FALSE,
          ws |-> walk_clusters(visited(self.clusters), needexts, ascent, 1, TRUE, FZero, <<>>),
          numunknown |-> self.numunknown]

\* style strings: a family in quotes and a weight; no family; a trailing
\* semicolon; a family, a style and a variant
StyStrs ==
    { << <<"font-family", <<SQ, "a", SQ>> >>, <<"font-weight", "bold">> >>,
      << <<"font-size", "10px">> >>,
      << <<"font-family", <<"b">> >>, <<"font-weight", "bold">>, <<"">> >>,
      << <<"font-family", <<"b">> >>, <<"font-style", "italic">>,
         <<"font-variant", "small-caps">>, <<"font-weight", "bolder">> >> }

\* the clusters of a rendered text: the first at the line start
Layouts ==
    UNION {{[i \in 1..n |-> Cluster(IF i = 1 THEN 0 ELSE xs[i])] : xs \in [1..n -> XUnits]} :
              n \in 1..MaxClusters}

\* the masks a caller passes for a layout: one entry per visited position, and
\* the empty mask for the empty text
Masks(clusters) ==
    [1..Len(visited(clusters)) -> {"0", "1"}] \cup (IF clusters = <<>> THEN {<<>>} ELSE {})

Ascents == {F08}

\* Get_Character_Extents for every layout, mask and ascent
ExtentsTable ==
    [k \in UNION {{<<c, m, a>> : m \in Masks(c), a \in Ascents} : c \in Layouts \cup {<<>>}} |->
        Get_Character_Extents([clusters |-> k[1], numunknown |-> 0], k[3], k[2])]

\* the font descriptions a layout can carry: none, or that of a style string
Descriptions ==
    {NoneVal} \cup {css_to_pango_description(fill_mandatory(parse_style(<<>>, s), msty),
                                             pufd(PANGOSIZE)) :
                        s \in {t \in StyStrs : \A i \in 1..Len(t) : Len(t[i]) >= 2}}

\* the part of the renderer that Set_Text_Style reads and writes
StyleState(self) ==
    [haspangoFT2 |-> self.haspangoFT2, numerrlogs |-> self.numerrlogs, fd |-> self.fd]

\* Set_Text_Style for every renderer state, style string and answer of load_font
StyleTable ==
    [k \in {<<[haspangoFT2 |-> b, numerrlogs |-> 0, fd |-> d], s, f>> :
                b \in BOOLEAN, d \in Descriptions, s \in StyStrs, f \in LoadOutcomes} |->
        Set_Text_Style(k[1], k[2], k[3])]

InitPango ==
    /\ IdleResolver
    /\ IdleHandle
    /\ \E b \in BOOLEAN :
           pango = [made |-> TRUE, haspangoFT2 |-> b, numerrlogs |-> 0, fd |-> NoneVal,
                    clusters |-> <<>>, numunknown |-> 0]
    /\ arg = [op |-> "none"]
    /\ ret = NoneVal

\* the renderer and the outcome r.self, r of a Set_Text_Style call take effect
Returns(r) ==
    /\ pango' = [pango EXCEPT !.fd = r.self.fd]
    /\ ret' = [k \in DOMAIN r \ {"self"} |-> r[k]]

SetTextStyle ==
    \E stystr \in StyStrs, fnt \in LoadOutcomes :
        /\ Returns(StyleTable[<<StyleState(pango), stystr, fnt>>])
        /\ arg' = [op |-> "Set_Text_Style", stystr |-> stystr, fnt |-> fnt]
        /\ UNCHANGED <<resolverVars, handleVars>>

RenderText ==
    \E c \in Layouts, u \in {0, 1} :
        /\ pango' = Render_Text(pango, c, u)
        /\ arg' = [op |-> "Render_Text", texttorender |-> c, numunknown |-> u]
        /\ ret' = NoneVal
        /\ UNCHANGED <<resolverVars, handleVars>>

\* get_unknown_glyphs_count() of the layout, in the outcome r of a call
with_numunknown(r, numunknown) ==
    IF r.raised THEN r ELSE [r EXCEPT !.numunknown = numunknown]

GetCharacterExtents ==
    \E needexts \in Masks(pango.clusters), ascent \in Ascents :
        /\ arg' = [op |-> "Get_Character_Extents", needexts |-> needexts, ascent |-> ascent]
        /\ ret' = with_numunknown(ExtentsTable[<<pango.clusters, needexts, ascent>>],
                                  pango.numunknown)
        /\ UNCHANGED <<pango, resolverVars, handleVars>>

NextPango == SetTextStyle \/ RenderText \/ GetCharacterExtents

SpecPango == InitPango /\ [][NextPango]_vars

\* every segment of the style string has a key and a value
WellFormed(stystr) == \A i \in 1..Len(stystr) : Len(stystr[i]) >= 2

\* C15: when load_font answers None for the description of a well-formed style
\* string, Set_Text_Style returns (False, None) and does not raise; when it
\* returns success = True, load_font answered a font and the metrics returned
\* are the height, ascent and descent of that font in ems.
C15_LoadFailureIsFalse ==
    arg.op = "Set_Text_Style" =>
        /\ (WellFormed(arg.stystr) /\ arg.fnt.none)
               => (~ret.raised /\ ~ret.success /\ ret.fm = NoneVal)
        /\ (~ret.raised /\ ret.success)
               => /\ ~arg.fnt.none
                  /\ ret.fm = [none |-> FALSE,
                               v |-> << units_to_em(arg.fnt.height),
                                        units_to_em(arg.fnt.ascent),
                                        units_to_em(arg.fnt.descent) >>]

\* load_font answered None on a renderer whose layout already had a description
\* from an earlier call: the call returned (False, None) and left it in place
C15_Witness ==
    /\ arg.op = "Set_Text_Style"
    /\ WellFormed(arg.stystr)
    /\ arg.fnt.none
    /\ ~ret.raised
    /\ ~ret.success
    /\ ret.fm = NoneVal
    /\ pango.fd # NoneVal

\* C22: a Render_Text call makes the given text the text of the layout, whatever
\* text it held before, and changes nothing else of the renderer, the font
\* description set by the last successful Set_Text_Style included; the same call
\* made again leaves the layout as it is.
C22_RenderTextReplaces ==
    [][arg'.op = "Render_Text" =>
         /\ pango'.clusters = arg'.texttorender
         /\ pango'.numunknown = arg'.numunknown
         /\ pango'.fd = pango.fd
         /\ \A f \in DOMAIN pango \ {"clusters", "numunknown"} : pango'[f] = pango[f]
         /\ Render_Text(pango', arg'.texttorender, arg'.numunknown) = pango']_vars

\* a text of two clusters was rendered on a layout that has a font description
C22_Witness ==
    /\ arg.op = "Render_Text"
    /\ pango.fd # NoneVal
    /\ Len(arg.texttorender) = 2
    /\ pango.clusters = arg.texttorender

\* C30: a Set_Text_Style call that returns success = False leaves the renderer,
\* the font description and the text of its layout included, as it was.
C30_FailedStyleChangesNothing ==
    [][(arg'.op = "Set_Text_Style" /\ ~ret'.raised /\ ~ret'.success) => pango' = pango]_vars

\* a call for another style than the one in force has failed on a layout that
\* holds a text: the description of the earlier successful call is in place
C30_Witness ==
    /\ arg.op = "Set_Text_Style"
    /\ ~ret.raised
    /\ ~ret.success
    /\ pango.clusters # <<>>
    /\ pango.fd # NoneVal
    /\ pango.fd # css_to_pango_description(
                      fill_mandatory(parse_style(<<>>, arg.stystr), msty), pufd(PANGOSIZE))

\* the clusters of the layout that the last call walked
Walked == visited(pango.clusters)

\* cluster i was requested by the mask of the last call
Requested(i) == arg.needexts[i] = "1"

\* the uncorrected logical x-origin of cluster i is negative
RawNegative(i) == Walked[i].logical_rect.x < 0

\* the requested clusters before cluster i
RequestedBefore(i) == {j \in 1..(i - 1) : Requested(j)}

\* the last requested cluster before cluster i
LastRequestedBefore(i) == CHOOSE j \in RequestedBefore(i) : \A k \in RequestedBefore(i) : k <= j

\* cluster j is negative and the requested cluster before it was not
GrowsAfterNonNegative(j) ==
    /\ Requested(j)
    /\ RawNegative(j)
    /\ RequestedBefore(j) # {}
    /\ ~RawNegative(LastRequestedBefore(j))

\* cluster j is negative and the requested cluster before it, if any, was not
GrowsAfterNonNegativeOrFirst(j) ==
    /\ Requested(j)
    /\ RawNegative(j)
    /\ RequestedBefore(j) # {} => ~RawNegative(LastRequestedBefore(j))

\* the outputs of the last call carry, at every requested cluster i, the offset
\* of one unit 2^32 / (SCALE * PANGOSIZE) per cluster up to i at which Grows holds
OffsetsFollow(Grows(_)) ==
    (arg.op = "Get_Character_Extents" /\ ~ret.raised) =>
        \A i \in 1..Len(Walked) :
            Requested(i) =>
                LET offset == FMul(FromInt(Cardinality({j \in 1..i : Grows(j)})),
                                   FDiv(FTwo32, FromInt(SCALE * PANGOSIZE)))
                IN  /\ ~ret.ws[i].none
                    /\ ret.ws[i].ext[1][1]
                         = FAdd(units_to_em(Walked[i].logical_rect.x), offset)
                    /\ ret.ws[i].ext[2][1]
                         = FAdd(units_to_em(Walked[i].ink_rect.x), offset)

TrueOrigins == {0, 1022, 1025, 2048 + 1022, 2048 + 1025}

\* the signed 32-bit value that the backend reports for a true origin of n steps
Reported(n) ==
    LET r == n % 2048
    IN  (IF r >= 1024 THEN r - 2048 ELSE r) * 2^21

\* the needed clusters i < j with no needed cluster between them
ConsecutiveNeeded(i, j) ==
    /\ i < j
    /\ Requested(i)
    /\ Requested(j)
    /\ \A m \in (i + 1)..(j - 1) : ~Requested(m)

\* t is a line of true origins that the walked layout reports: it starts
\* non-negative, never decreases and grows by less than 2^31 backend units
\* between consecutive needed clusters
TrueLine(t) ==
    /\ \A i \in 1..Len(Walked) : Walked[i].logical_rect.x = Reported(t[i])
    /\ t[1] >= 0
    /\ \A i, j \in 1..Len(Walked) : i < j => t[i] <= t[j]
    /\ \A i, j \in 1..Len(Walked) : ConsecutiveNeeded(i, j) => t[j] - t[i] < 1024

\* C29: for every line of true origins as above, and every mask, the corrected
\* logical x that Get_Character_Extents returns for a needed cluster is its true
\* origin in ems.
C29_CorrectedIsTrueOrigin ==
    (arg.op = "Get_Character_Extents" /\ ~ret.raised) =>
        \A t \in [1..Len(Walked) -> TrueOrigins] :
            TrueLine(t) =>
                \A i \in 1..Len(Walked) :
                    Requested(i) =>
                        FEq(ret.ws[i].ext[1][1], FDiv(FromInt(t[i]), FromInt(2)))

-----------------------------------------------------------------------------
(* FontTools_FontInstance.font_from_fc on a font collection                 *)
(* TTFont(fname) raises for a collection file, so the except branch picks   *)
(* one of its sub-faces. A collection is the sequence of its sub-faces in   *)
(* fontNumber order (fontNumber i is element i + 1); a sub-face is          *)
(* [usWeightClass, usWidthClass, fsSelection, subfamily], subfamily being   *)
(* name record 2 as a sequence of one-character strings, or NoName when     *)
(* getName returns None. found is [weight, slant, width].                   *)

OS2WDT_to_FCWDT ==
    << <<1, FC.WIDTH_ULTRACONDENSED>>, <<2, FC.WIDTH_EXTRACONDENSED>>,
       <<3, FC.WIDTH_CONDENSED>>, <<4, FC.WIDTH_SEMICONDENSED>>,
       <<5, FC.WIDTH_NORMAL>>, <<6, FC.WIDTH_SEMIEXPANDED>>,
       <<7, FC.WIDTH_EXPANDED>>, <<8, FC.WIDTH_EXTRAEXPANDED>>,
       <<9, FC.WIDTH_ULTRAEXPANDED>> >>

OS2WGT_to_FCWGT ==
    << <<100, FC.WEIGHT_THIN>>, <<200, FC.WEIGHT_EXTRALIGHT>>,
       <<300, FC.WEIGHT_LIGHT>>, <<350, FC.WEIGHT_SEMILIGHT>>,
       <<380, FC.WEIGHT_BOOK>>, <<400, FC.WEIGHT_NORMAL>>,
       <<500, FC.WEIGHT_MEDIUM>>, <<600, FC.WEIGHT_SEMIBOLD>>,
       <<700, FC.WEIGHT_BOLD>>, <<800, FC.WEIGHT_ULTRABOLD>>,
       <<900, FC.WEIGHT_HEAVY>>, <<1000, FC.WEIGHT_ULTRABLACK>> >>

UpperCase ==
    <<"A", "B", "C", "D", "E", "F", "G", "H", "I", "J", "K", "L", "M",
      "N", "O", "P", "Q", "R", "S", "T", "U", "V", "W", "X", "Y", "Z">>

LowerCase ==
    <<"a", "b", "c", "d", "e", "f", "g", "h", "i", "j", "k", "l", "m",
      "n", "o", "p", "q", "r", "s", "t", "u", "v", "w", "x", "y", "z">>

\* s.lower()
lower(s) ==
    [i \in 1..Len(s) |->
        IF \E n \in 1..Len(UpperCase) : UpperCase[n] = s[i]
        THEN LowerCase[CHOOSE n \in 1..Len(UpperCase) : UpperCase[n] = s[i]]
        ELSE s[i]]

\* sub in s
contains(sub, s) ==
    \E i \in 0..(Len(s) - Len(sub)) : SubSeq(s, i + 1, i + Len(sub)) = sub

NoName == <<"<", "N", "o", "n", "e", ">">>
Unknown_ == <<"U", "n", "k", "n", "o", "w", "n">>
Italic_ == <<"i", "t", "a", "l", "i", "c">>
Oblique_ == <<"o", "b", "l", "i", "q", "u", "e">>

\* lines 426-434
font_italic(tfont) ==
    LET subfamily == IF tfont.subfamily = NoName THEN Unknown_ ELSE tfont.subfamily
    IN  \/ tfont.fsSelection % 2 # 0
        \/ contains(Italic_, lower(subfamily))
        \/ contains(Oblique_, lower(subfamily))

\* the list of lines 436-443; the caller has checked that the width class is
\* a key of OS2WDT_to_FCWDT
matches(tfont, found) ==
    << nearest_val(OS2WGT_to_FCWGT, tfont.usWeightClass) = found.weight,
       Get(OS2WDT_to_FCWDT, tfont.usWidthClass) = found.width,
       \/ font_italic(tfont) /\ found.slant \in {FC.SLANT_ITALIC, FC.SLANT_OBLIQUE}
       \/ ~font_italic(tfont) /\ found.slant = FC.SLANT_ROMAN >>

\* sum() of a list of bools
RECURSIVE sum(_)
sum(bs) == IF bs = <<>> THEN 0 ELSE (IF Head(bs) THEN 1 ELSE 0) + sum(Tail(bs))

\* max() of a non-empty list of numbers
pymax(ns) == CHOOSE n \in Range(ns) : \A m \in Range(ns) : m <= n

\* the last position of the list that holds its maximum
last_max(num_match) ==
    CHOOSE i \in 1..Len(num_match) :
        /\ num_match[i] = pymax(num_match)
        /\ \A j \in (i + 1)..Len(num_match) : num_match[j] # pymax(num_match)

\* [i for i in range(num_fonts) if num_match[i] == max(num_match)][0], as a
\* position of the list
first_max(num_match) ==
    CHOOSE i \in 1..Len(num_match) :
        /\ num_match[i] = pymax(num_match)
        /\ \A j \in 1..(i - 1) : num_match[j] # pymax(num_match)

\* the loop of lines 421-448 from position i on: the scores so far, the position
\* of the sub-face it stopped at, if any, and whether the width lookup raised
RECURSIVE score_faces(_, _, _, _)
score_faces(collection, found, i, num_match) ==
    IF i > Len(collection)
    THEN [raised |-> FALSE, num_match |-> num_match, font |-> 0]
    ELSE IF ~HasKey(OS2WDT_to_FCWDT, collection[i].usWidthClass)
    THEN [raised |-> TRUE, num_match |-> num_match, font |-> 0]
    ELSE LET n == sum(matches(collection[i], found))
         IN  IF n = 3
             THEN [raised |-> FALSE, num_match |-> Append(num_match, n), font |-> i]
             ELSE score_faces(collection, found, i + 1, Append(num_match, n))

\* the fontNumber of the sub-face that font_from_fc returns
font_from_fc(collection, found) ==
    LET s == score_faces(collection, found, 1, <<>>)
    IN  IF s.raised \/ s.num_match = <<>>
        \* KeyError of the width table, or max() of an empty list
        THEN [done |-> TRUE, raised |-> TRUE]
        ELSE IF pymax(s.num_match) < 3
        THEN [done |-> TRUE, raised |-> FALSE, fontNumber |-> first_max(s.num_match) - 1]
        ELSE [done |-> TRUE, raised |-> FALSE, fontNumber |-> s.font - 1]

(* Inputs of font_from_fc *)

MaxFaces == 3      \* sub-faces of a collection

Regular_ == <<"R", "e", "g", "u", "l", "a", "r">>
Bold_ == <<"B", "o", "l", "d">>

SubFaces ==
    { [usWeightClass |-> 400, usWidthClass |-> 5, fsSelection |-> 64, subfamily |-> Regular_],
      [usWeightClass |-> 700, usWidthClass |-> 5, fsSelection |-> 32, subfamily |-> Bold_],
      \* italic by its name only
      [usWeightClass |-> 700, usWidthClass |-> 3, fsSelection |-> 32,
       subfamily |-> Bold_ \o <<" ", "I", "t", "a", "l", "i", "c">>],
      \* italic by its selection bit only
      [usWeightClass |-> 400, usWidthClass |-> 5, fsSelection |-> 1, subfamily |-> Regular_],
      [usWeightClass |-> 400, usWidthClass |-> 3, fsSelection |-> 0,
       subfamily |-> <<"O", "b", "l", "i", "q", "u", "e">>],
      \* no name record, and a weight class half-way between two table keys
      [usWeightClass |-> 390, usWidthClass |-> 5, fsSelection |-> 64, subfamily |-> NoName],
      \* a width class outside 1..9
      [usWeightClass |-> 400, usWidthClass |-> 0, fsSelection |-> 64, subfamily |-> Regular_] }

Collections == UNION {[1..n -> SubFaces] : n \in 1..MaxFaces}

Founds ==
    [weight : {FC.WEIGHT_NORMAL, FC.WEIGHT_BOLD},
     slant : {FC.SLANT_ROMAN, FC.SLANT_ITALIC, FC.SLANT_OBLIQUE},
     width : {FC.WIDTH_NORMAL, FC.WIDTH_CONDENSED}]

InitTTC ==
    /\ IdleResolver
    /\ IdleHandle
    /\ IdleRenderer
    /\ arg \in {[fn |-> "font_from_fc", collection |-> c, found |-> f] :
                    c \in Collections, f \in Founds}
    /\ ret = [done |-> FALSE]

CallFontFromFc ==
    /\ arg.fn = "font_from_fc"
    /\ ~ret.done
    /\ ret' = font_from_fc(arg.collection, arg.found)
    /\ UNCHANGED <<arg, resolverVars, handleVars, pango>>

NextTTC == CallFontFromFc

SpecTTC == InitTTC /\ [][NextTTC]_vars

\* the number of criteria among weight, width and italic/slant on which a
\* sub-face agrees with the matched face; a width class that the width table
\* does not have agrees with no width
Score(tfont, found) ==
    Cardinality(
        {c \in {"weight", "width", "italic"} :
            \/ c = "weight"
               /\ nearest_val(OS2WGT_to_FCWGT, tfont.usWeightClass) = found.weight
            \/ c = "width"
               /\ \E e \in Range(OS2WDT_to_FCWDT) :
                      e[1] = tfont.usWidthClass /\ e[2] = found.width
            \/ c = "italic"
               /\ font_italic(tfont) = (found.slant # FC.SLANT_ROMAN)
               /\ found.slant \in {FC.SLANT_ROMAN, FC.SLANT_ITALIC, FC.SLANT_OBLIQUE}})

\* C18: the sub-face that font_from_fc selects from a collection has the highest
\* score of all sub-faces of the file, and no sub-face before it has that score;
\* also when the highest score is 0.
C18_BestScoreLowestIndex ==
    (arg.fn = "font_from_fc" /\ ret.done /\ ~ret.raised) =>
        LET score(i) == Score(arg.collection[i], arg.found)
            chosen == ret.fontNumber + 1
        IN  /\ chosen \in 1..Len(arg.collection)
            /\ \A j \in 1..Len(arg.collection) : score(j) <= score(chosen)
            /\ \A j \in 1..(chosen - 1) : score(j) < score(chosen)

\* three sub-faces that all score 0, the first of which is selected
C18_Witness ==
    /\ arg.fn = "font_from_fc"
    /\ ret.done
    /\ ~ret.raised
    /\ Len(arg.collection) = 3
    /\ \A j \in 1..3 : Score(arg.collection[j], arg.found) = 0
    /\ arg.collection[1] # arg.collection[2]
    /\ ret.fontNumber = 0

-----------------------------------------------------------------------------
(* Bounds for nearest_val *)

MaxKey == 4        \* table keys and queries range over 0..MaxKey
MaxTable == 3      \* a table has 1..MaxTable entries

TableKeys == 0..MaxKey

\* every ordered table with distinct keys; the value of an entry names its key
\* except that keys 0 and 1 share a value (the weight table is many-to-one too)
ValOf(k) == IF k = 0 THEN 1 ELSE k

Tables ==
    {t \in UNION {[1..n -> TableKeys] : n \in 1..MaxTable} :
        \A i, j \in 1..Len(t) : i # j => t[i] # t[j]}

TableOf(t) == [i \in 1..Len(t) |-> <<t[i], ValOf(t[i])>>]

InitNV ==
    /\ IdleResolver
    /\ IdleHandle
    /\ IdleRenderer
    /\ arg \in {[fn |-> "nearest_val", dictv |-> TableOf(t), q |-> q] :
                    t \in Tables, q \in 0..(MaxKey + 1)}
    /\ ret = [done |-> FALSE]

CallNearestVal ==
    /\ arg.fn = "nearest_val"
    /\ ~ret.done
    /\ ret' = [done |-> TRUE, val |-> nearest_val(arg.dictv, arg.q)]
    /\ UNCHANGED <<arg, resolverVars, handleVars, pango>>

NextNV == CallNearestVal

SpecNV == InitNV /\ [][NextNV]_vars

\* C7: nearest_val returns the value stored under a key at minimum distance from
\* the query, and among the keys at that distance the one that comes first in the
\* table's iteration order.
C7_NearestFirstMin ==
    ret.done =>
        \E i \in 1..Len(arg.dictv) :
            /\ ret.val = arg.dictv[i][2]
            /\ \A j \in 1..Len(arg.dictv) :
                   Abs(arg.dictv[i][1] - arg.q) <= Abs(arg.dictv[j][1] - arg.q)
            /\ \A j \in 1..(i - 1) :
                   Abs(arg.dictv[j][1] - arg.q) > Abs(arg.dictv[i][1] - arg.q)

\* a tie between two keys with different values, the later of which follows the first
C7_Witness ==
    /\ ret.done
    /\ \E i, j \in 1..Len(arg.dictv) :
           /\ i < j
           /\ Abs(arg.dictv[i][1] - arg.q) = Abs(arg.dictv[j][1] - arg.q)
           /\ arg.dictv[i][2] # arg.dictv[j][2]
           /\ ret.val = arg.dictv[i][2]
           /\ \A m \in 1..Len(arg.dictv) :
                  Abs(arg.dictv[i][1] - arg.q) <= Abs(arg.dictv[m][1] - arg.q)

====
